---- MODULE Spec2Model ----
(***************************************************************************)
(* Legal knowledge-graph pipeline: segmenter (02_parse_structure.py),      *)
(* rule-based annotator (03_enrich_rule_based.py), graph upsert            *)
(* (05_stream_to_kg.py), graph enrichment (06_enrich_graph.py) and hybrid  *)
(* retrieval (Search.py, Graph_RAG_new.py).                                *)
(*                                                                         *)
(* Text values are sequences of one-character strings, so that strip(),    *)
(* lower() and string concatenation are computed, not assumed.  A JSON     *)
(* null is the value Null; a JSON number n is <<"#", n>>.                  *)
(***************************************************************************)
EXTENDS Integers, Sequences, FiniteSets, TLC

VARIABLES graph, hist, phase, runs, base, file, pos, restarts,
          vecList, lexList, topK, fused,
          store, index, query, pc, ids, tierIds, ran, evidence, result,
          doc, ln, seg, out, annotated, passes,
          sections, llm_inputs, results_by_index, calls, kg_file,
          msec, llm_result, merges,
          stage, manifest, rowNo, processed, aborted,
          fmt, chroma

vars == <<graph, hist, phase, runs, base, file, pos, restarts,
          vecList, lexList, topK, fused,
          store, index, query, pc, ids, tierIds, ran, evidence, result,
          doc, ln, seg, out, annotated, passes,
          sections, llm_inputs, results_by_index, calls, kg_file,
          msec, llm_result, merges,
          stage, manifest, rowNo, processed, aborted,
          fmt, chroma>>

kgVars == <<graph, hist, phase, runs, base, file, pos, restarts>>
rrfVars == <<vecList, lexList, topK, fused>>
ragVars == <<store, index, query, pc, ids, tierIds, ran, evidence, result>>
textVars == <<doc, ln, seg, out, annotated, passes>>
llmVars == <<sections, llm_inputs, results_by_index, calls, kg_file,
             msec, llm_result, merges>>
manVars == <<stage, manifest, rowNo, processed, aborted>>
fmtVars == <<fmt>>
idxVars == <<chroma>>

----------------------------------------------------------------------------
(* Bounds of the model *)

MaxUpserts == 3
MaxBase == 2
MaxReruns == 1
MaxFile == 2
MaxRestarts == 2
MaxList == 3
LongLen == 39
MaxStore == 2
MaxDoc == 4
MaxParts == 2
MaxPasses == 2
MaxMerges == 2
MaxSecs == 6
MaxRows == 2
MaxLongAct == 42
MaxIndexed == 12
MaxCiteParts == 2

----------------------------------------------------------------------------
(* Text helpers: Python str / Cypher string functions *)

Null == <<"NULL">>

UpperLetters ==
  <<"A", "B", "C", "D", "E", "F", "G", "H", "I", "J", "K", "L", "M",
    "N", "O", "P", "Q", "R", "S", "T", "U", "V", "W", "X", "Y", "Z">>
LowerLetters ==
  <<"a", "b", "c", "d", "e", "f", "g", "h", "i", "j", "k", "l", "m",
    "n", "o", "p", "q", "r", "s", "t", "u", "v", "w", "x", "y", "z">>

\* str.lower() / Cypher toLower() on one character
LowerChar(c) ==
  IF \E i \in DOMAIN UpperLetters : UpperLetters[i] = c
  THEN LowerLetters[CHOOSE i \in DOMAIN UpperLetters : UpperLetters[i] = c]
  ELSE c

\* str.upper() / Cypher toUpper() on one character
UpperChar(c) ==
  IF \E i \in DOMAIN LowerLetters : LowerLetters[i] = c
  THEN UpperLetters[CHOOSE i \in DOMAIN LowerLetters : LowerLetters[i] = c]
  ELSE c

\* str.lower()
Lower(s) == [i \in DOMAIN s |-> LowerChar(s[i])]

\* str.upper()
Upper(s) == [i \in DOMAIN s |-> UpperChar(s[i])]

\* sub in s / Cypher s CONTAINS sub
Contains(s, sub) ==
  \E i \in 1 .. Len(s) - Len(sub) + 1 : SubSeq(s, i, i + Len(sub) - 1) = sub

RECURSIVE LStrip(_)
LStrip(s) == IF s # <<>> /\ Head(s) = " " THEN LStrip(Tail(s)) ELSE s

RECURSIVE RStrip(_)
RStrip(s) ==
  IF s # <<>> /\ s[Len(s)] = " " THEN RStrip(SubSeq(s, 1, Len(s) - 1)) ELSE s

\* str.strip()
Strip(s) == RStrip(LStrip(s))

\* (x or "")
OrEmpty(x) == IF x = Null THEN <<>> ELSE x

\* isinstance(x, str): a JSON number is tagged "#", null is Null
IsStr(x) == x # Null /\ (x = <<>> \/ Head(x) # "#")

\* str(x): a number loses its tag, a string is itself
Str(x) == IF x # <<>> /\ Head(x) = "#" THEN Tail(x) ELSE x

\* F(x), with x evaluated to a value before F is entered: operator arguments
\* are otherwise evaluated on first use, inside whatever uses them
Strict(x, F(_)) == CHOOSE val \in {F(v) : v \in {x}} : TRUE

\* Cypher coalesce(a, b)
Coalesce(a, b) == IF a # Null THEN a ELSE b

----------------------------------------------------------------------------
(* The property graph: nodes in creation order (the index is Neo4j's       *)
(* internal id), edges as (type, src, dst, count).                         *)

EmptyGraph == [nodes |-> <<>>, edges |-> {}]

\* a numeric property: absent (null) or a number
NullNum == [isnull |-> TRUE, v |-> 0]
Num(n) == [isnull |-> FALSE, v |-> n]

Edge(t, s, d) == [type |-> t, src |-> s, dst |-> d, count |-> NullNum]

\* MATCH (n:label {id: key})
NodeIdx(g, label, key) ==
  {i \in DOMAIN g.nodes : g.nodes[i].label = label /\ g.nodes[i].id = key}

\* all nodes of a label
LabelIdx(g, label) == {i \in DOMAIN g.nodes : g.nodes[i].label = label}

\* CREATE of one node
AddNode(g, n) == [g EXCEPT !.nodes = Append(@, n)]

\* MERGE (a)-[:t]->(b) for every row (a, b) of S \X D
MergeEdges(g, t, S, D) ==
  [g EXCEPT !.edges = @ \cup
     {Edge(t, s, d) : <<s, d>> \in
        {p \in S \X D : ~\E e \in g.edges :
                           e.type = t /\ e.src = p[1] /\ e.dst = p[2]}}]

\* an Act node: title is set by the title back-fill only
ActNode(id, year) ==
  [label |-> "Act", id |-> id, p |-> [year |-> year, title |-> Null]]

SectionNode(id) ==
  [label |-> "Section", id |-> id,
   p |-> [citation |-> Null, heading |-> Null, text |-> Null, chapter |-> Null,
          sectionNo |-> Null, pages |-> Null, has_llm |-> Null,
          severity_score |-> NullNum, summary |-> Null, section_id |-> Null]]

TermNode(id, name, actId) ==
  [label |-> "DefinedTerm", id |-> id, p |-> [name |-> name, act_id |-> actId]]

RoleNode(id, name) == [label |-> "Role", id |-> id, p |-> [name |-> name]]

ObligationNode(id) ==
  [label |-> "Obligation", id |-> id,
   p |-> [action |-> Null, conditions |-> Null, source_span |-> Null]]

PenaltyNode(id) ==
  [label |-> "Penalty", id |-> id,
   p |-> [description |-> Null, imprisonment |-> Null, fine_amount |-> Null,
          source_span |-> Null]]

\* MERGE (n:label {id: key}): create the node when no node matches
MergeNode(g, n) ==
  IF NodeIdx(g, n.label, n.id) = {} THEN AddNode(g, n) ELSE g

\* SET of properties on every matched node
SetNodes(g, I, F(_)) ==
  [g EXCEPT !.nodes =
     [i \in DOMAIN g.nodes |-> IF i \in I THEN F(g.nodes[i]) ELSE g.nodes[i]]]

Min(S) == CHOOSE x \in S : \A y \in S : x <= y

\* MERGE (n:label {id: key})-[:t]->(r) with r bound and n not bound: the whole
\* pattern is matched, and when it has no match the whole unbound part is
\* created, a new node n included
RECURSIVE MergePattern(_, _, _, _)
MergePattern(g, n, t, R) ==
  IF R = {} THEN g
  ELSE LET r == Min(R)
           found == \E o \in NodeIdx(g, n.label, n.id) :
                      \E e \in g.edges : e.type = t /\ e.src = o /\ e.dst = r
           g1 == AddNode(g, n)
           g2 == [g1 EXCEPT !.edges = @ \cup {Edge(t, Len(g1.nodes), r)}]
       IN MergePattern(IF found THEN g ELSE g2, n, t, R \ {r})

----------------------------------------------------------------------------
(* merge_section_tx: 05_stream_to_kg.py *)

\* Python truthiness of a JSON scalar
Truthy(x) == x # Null /\ x # <<>> /\ x # <<"false">>

\* step 1 with `SET s = {...}` (all properties replaced) in place of the
\* seven assignments
MergeActSection_ReplaceProperties(g, sec) ==
  LET A0 == NodeIdx(g, "Act", sec.act_id)
      OnMatch(n) == [n EXCEPT !.p.year = Coalesce(n.p.year, sec.act_year)]
      g1 == IF A0 = {} THEN AddNode(g, ActNode(sec.act_id, sec.act_year))
            ELSE SetNodes(g, A0, OnMatch)
      A == NodeIdx(g1, "Act", sec.act_id)
      g2 == MergeNode(g1, SectionNode(sec.section_id))
      S == NodeIdx(g2, "Section", sec.section_id)
      SetSec(n) ==
        [SectionNode(sec.section_id) EXCEPT
                  !.p.citation = sec.citation,
                  !.p.heading = sec.heading,
                  !.p.text = sec.text,
                  !.p.chapter = sec.hierarchy.chapter,
                  !.p.sectionNo = sec.hierarchy.section,
                  !.p.pages = OrEmpty(sec.pages),
                  !.p.has_llm = IF Truthy(sec.processing_meta.llm_used)
                                THEN <<"true">> ELSE <<"false">>]
      g3 == SetNodes(g2, S, SetSec)
  IN MergeEdges(g3, "HAS_SECTION", A, S)

\* 1) Act and Section
MergeActSection(g, sec) ==
  LET A0 == NodeIdx(g, "Act", sec.act_id)
      OnMatch(n) == [n EXCEPT !.p.year = Coalesce(n.p.year, sec.act_year)]
      g1 == IF A0 = {} THEN AddNode(g, ActNode(sec.act_id, sec.act_year))
            ELSE SetNodes(g, A0, OnMatch)
      A == NodeIdx(g1, "Act", sec.act_id)
      g2 == MergeNode(g1, SectionNode(sec.section_id))
      S == NodeIdx(g2, "Section", sec.section_id)
      SetSec(n) ==
        [n EXCEPT !.p.citation = sec.citation,
                  !.p.heading = sec.heading,
                  !.p.text = sec.text,
                  !.p.chapter = sec.hierarchy.chapter,
                  !.p.sectionNo = sec.hierarchy.section,
                  !.p.pages = OrEmpty(sec.pages),
                  !.p.has_llm = IF Truthy(sec.processing_meta.llm_used)
                                THEN <<"true">> ELSE <<"false">>]
      g3 == SetNodes(g2, S, SetSec)
  IN MergeEdges(g3, "HAS_SECTION", A, S)

\* the Cypher statement of step 2
MergeTermStmt(g, section_id, term_id, name, act_id) ==
  LET S == NodeIdx(g, "Section", section_id)
      g1 == MergeNode(g, TermNode(term_id, name, act_id))
  IN IF S = {} THEN g
     ELSE MergeEdges(g1, "DEFINES", S, NodeIdx(g1, "DefinedTerm", term_id))

\* 2) Defined terms
RECURSIVE MergeTerms(_, _, _)
MergeTerms(g, sec, k) ==
  IF k > Len(sec.defined_terms) THEN g
  ELSE LET name == Strip(OrEmpty(sec.defined_terms[k].term))
           term_id == sec.act_id \o <<"|">> \o Lower(name)
       IN MergeTerms(IF name = <<>> THEN g
                     ELSE MergeTermStmt(g, sec.section_id, term_id, name,
                                        sec.act_id),
                     sec, k + 1)

\* the Cypher statement of step 3
MergeRoleStmt(g, section_id, role_id, role_name) ==
  LET S == NodeIdx(g, "Section", section_id)
      g1 == MergeNode(g, RoleNode(role_id, role_name))
  IN IF S = {} THEN g
     ELSE MergeEdges(g1, "MENTIONS_ROLE", S, NodeIdx(g1, "Role", role_id))

\* 3) Roles
RECURSIVE MergeRoles(_, _, _)
MergeRoles(g, sec, k) ==
  IF k > Len(sec.roles) THEN g
  ELSE LET role_name == sec.roles[k]
           clean == Strip(role_name)
           role_id == Lower(clean)
       IN MergeRoles(IF ~IsStr(role_name) \/ clean = <<>> THEN g
                     ELSE MergeRoleStmt(g, sec.section_id, role_id, clean),
                     sec, k + 1)

\* enumerate() index as text: idx is 0-based
IdxStr(k) == <<CASE k = 1 -> "0" [] k = 2 -> "1" [] k = 3 -> "2" [] OTHER -> "9">>

\* first Cypher statement of step 4
MergeObligationStmt(g, section_id, obl_id, ob) ==
  LET S == NodeIdx(g, "Section", section_id)
      g1 == MergeNode(g, ObligationNode(obl_id))
      O == NodeIdx(g1, "Obligation", obl_id)
      SetOb(n) == [n EXCEPT !.p.action = ob.action,
                            !.p.conditions = ob.conditions,
                            !.p.source_span = ob.source_span]
  IN IF S = {} THEN g
     ELSE MergeEdges(SetNodes(g1, O, SetOb), "IMPOSES_OBLIGATION", S, O)

\* second Cypher statement of step 4 (actor present)
MergeObligationOn(g, role_id, actor, obl_id) ==
  LET g1 == MergeNode(g, RoleNode(role_id, actor))
  IN MergePattern(g1, ObligationNode(obl_id), "OBLIGATION_ON",
                  NodeIdx(g1, "Role", role_id))

\* 4) Obligations
RECURSIVE MergeObligations(_, _, _)
MergeObligations(g, sec, k) ==
  IF k > Len(sec.obligations) THEN g
  ELSE LET ob == sec.obligations[k]
           actor == Strip(OrEmpty(ob.actor))
           obl_id == sec.section_id \o <<"|", "o", "b", "|">> \o IdxStr(k)
           g1 == MergeObligationStmt(g, sec.section_id, obl_id, ob)
           g2 == IF actor # <<>>
                 THEN MergeObligationOn(g1, Lower(actor), actor, obl_id)
                 ELSE g1
       IN MergeObligations(IF ~ob.isdict THEN g ELSE g2, sec, k + 1)

\* first Cypher statement of step 5
MergePenaltyStmt(g, section_id, pen_id, pen, fine_str) ==
  LET S == NodeIdx(g, "Section", section_id)
      g1 == MergeNode(g, PenaltyNode(pen_id))
      P == NodeIdx(g1, "Penalty", pen_id)
      SetPen(n) == [n EXCEPT !.p.description = pen.description,
                             !.p.imprisonment = pen.imprisonment,
                             !.p.fine_amount = fine_str,
                             !.p.source_span = pen.source_span]
  IN IF S = {} THEN g
     ELSE MergeEdges(SetNodes(g1, P, SetPen), "PRESCRIBES_PENALTY", S, P)

\* second Cypher statement of step 5 (subject present)
MergeAppliesTo(g, role_id, subject, pen_id) ==
  LET g1 == MergeNode(g, RoleNode(role_id, subject))
  IN MergePattern(g1, PenaltyNode(pen_id), "APPLIES_TO",
                  NodeIdx(g1, "Role", role_id))

\* 5) Penalties
RECURSIVE MergePenalties(_, _, _)
MergePenalties(g, sec, k) ==
  IF k > Len(sec.penalties) THEN g
  ELSE LET pen == sec.penalties[k]
           subject == Strip(OrEmpty(pen.subject))
           fine_str == IF pen.fine_amount # Null THEN Str(pen.fine_amount)
                       ELSE Null
           pen_id == sec.section_id \o <<"|", "p", "e", "n", "|">> \o IdxStr(k)
           g1 == MergePenaltyStmt(g, sec.section_id, pen_id, pen, fine_str)
           g2 == IF subject # <<>>
                 THEN MergeAppliesTo(g1, Lower(subject), subject, pen_id)
                 ELSE g1
       IN MergePenalties(IF ~pen.isdict THEN g ELSE g2, sec, k + 1)

\* the whole transaction
merge_section_tx(g, sec) ==
  LET Terms(g1) == MergeTerms(g1, sec, 1)
      Roles(g2) == MergeRoles(g2, sec, 1)
      Obligations(g3) == MergeObligations(g3, sec, 1)
      Penalties(g4) == MergePenalties(g4, sec, 1)
  IN Strict(Strict(Strict(Strict(MergeActSection(g, sec), Terms), Roles),
                   Obligations), Penalties)

----------------------------------------------------------------------------
(* Section records read from the kg_ready / enriched JSONL files *)

A1 == <<"1", "8", "5", "1", "_", "1">>
A2 == <<"1", "8", "6", "0", "_", "2">>

\* section_id as the segmenter writes it: <act_id>-sec-<section>
SecId(act, no) == act \o <<"-", "s", "e", "c", "-">> \o no

Ob(actor, action) ==
  [isdict |-> TRUE, actor |-> actor, action |-> action, conditions |-> Null,
   source_span |-> Null]

Pen(subject, imprisonment, fine_amount) ==
  [isdict |-> TRUE, subject |-> subject, description |-> <<"d">>,
   imprisonment |-> imprisonment, fine_amount |-> fine_amount,
   source_span |-> Null]

\* a list element that is not a JSON object
NotDictOb == [isdict |-> FALSE, actor |-> Null, action |-> Null,
              conditions |-> Null, source_span |-> Null]

Sec(act, year, no, heading, terms, roles, obligations, penalties, citations) ==
  [act_id |-> act, act_year |-> year, section_id |-> SecId(act, no),
   citation |-> <<"S", "e", "c", "t", "i", "o", "n", " ">> \o no,
   heading |-> heading, text |-> <<"x">>,
   hierarchy |-> [chapter |-> Null, section |-> no],
   pages |-> <<"1">>, processing_meta |-> [llm_used |-> <<"true">>],
   defined_terms |-> terms, roles |-> roles, obligations |-> obligations,
   penalties |-> penalties, citations |-> citations]

\* a bare-number string citation (same act)
CitStr(text) == [kind |-> "str", text |-> text, target_section_id |-> Null,
                 target_act_id |-> Null, target_section_no |-> Null]

\* a structured citation
CitDict(sid, act, no) ==
  [kind |-> "dict", text |-> Null, target_section_id |-> sid,
   target_act_id |-> act, target_section_no |-> no]

\* Section 1 of act A1: roles "Of" and "c", an obligation on "Of", a penalty
\* with imprisonment and a numeric fine, cites section 2 of its own act
Rec1 ==
  Sec(A1, <<"1", "8", "5", "1">>, <<"1">>, <<"h">>, <<>>,
      <<<<"O", "f">>, <<"c">>>>,
      <<Ob(<<"O", "f">>, <<"p", "a", "y">>)>>,
      <<Pen(Null, <<"2", "y">>, <<"#", "5">>)>>,
      <<CitStr(<<"2">>)>>)

\* Section 2 of act A1: the same roles in another case, term "Tx", a penalty
\* applying to "c" with a fine only
Rec2 ==
  Sec(A1, <<"1", "8", "5", "1">>, <<"2">>, Null,
      <<[term |-> <<"T", "x">>]>>,
      <<<<"c">>, <<"o", "f">>>>,
      <<>>,
      <<Pen(<<"c">>, Null, <<"9">>)>>,
      <<CitDict(SecId(A1, <<"1">>), Null, Null),
        CitDict(Null, A2, <<"7">>)>>)

\* Section 1 of act A2: terms "tx" and "to", role " Of" with white space, a role that
\* is not a string, elements that are not objects, a citation "1851_1: 2"
\* and a citation of a section that does not exist
Rec3 ==
  Sec(A2, <<"1", "8", "6", "0">>, <<"1">>, <<"h">>,
      <<[term |-> <<"t", "x">>], [term |-> Null], [term |-> <<"t", "o">>]>>,
      <<<<" ", "O", "f">>, <<"#", "7">>, <<" ">>, <<"c">>>>,
      <<NotDictOb, Ob(Null, <<"g", "o">>)>>,
      <<Pen(Null, <<>>, Null)>>,
      <<CitStr(A1 \o <<":", " ", "2">>), CitStr(<<"9">>)>>)

\* Section 1 of act A2 again, written without act_year and with other content
Rec4 ==
  Sec(A2, Null, <<"1">>, <<"k">>, <<>>, <<<<"C">>>>, <<>>, <<>>, <<>>)

\* Section 7 of act A2: no entities
Rec5 ==
  Sec(A2, <<"1", "8", "6", "0">>, <<"7">>, Null, <<>>, <<>>, <<>>, <<>>,
      <<CitStr(<<"1">>)>>)

\* Section 3 of act A1: the roles of section 1, an obligation on a role "x"
\* that no Section mentions, a citation that names section 1 of its act by
\* number and carries a section id that no Section has, and a citation of
\* section 3 itself
Rec6 ==
  Sec(A1, <<"1", "8", "5", "1">>, <<"3">>, Null, <<>>,
      <<<<"O", "f">>, <<"c">>>>,
      <<Ob(<<"x">>, <<"g", "o">>)>>, <<>>,
      <<CitDict(SecId(A1, <<"9">>), A1, <<"1">>), CitStr(<<"3">>)>>)

Records == {Rec1, Rec2, Rec3, Rec4, Rec5, Rec6}

\* a run of upserts from a graph
RECURSIVE UpsertAll(_, _)
UpsertAll(g, secs) ==
  IF secs = <<>> THEN g
  ELSE LET Rest(g1) == UpsertAll(g1, Tail(secs))
       IN Strict(merge_section_tx(g, Head(secs)), Rest)

----------------------------------------------------------------------------
(* Specification of the Graph Upsert Engine: any sequence of               *)
(* session.execute_write(merge_section_tx, sec)                            *)

\* the retrieval side at rest
RrfIdle == vecList = <<>> /\ lexList = <<>> /\ topK = 0 /\ fused = <<>>

RagIdle ==
  /\ store = <<>> /\ index = <<>> /\ query = <<>> /\ pc = "idle"
  /\ ids = <<>> /\ tierIds = <<>> /\ ran = {} /\ evidence = <<>>
  /\ result = "none"

\* segmenter and annotator at rest
TextIdle ==
  /\ doc = <<>> /\ ln = 0 /\ seg = <<>> /\ out = <<>>
  /\ annotated = <<>> /\ passes = 0

\* the LLM batcher at rest
LlmIdle ==
  /\ sections = <<>> /\ llm_inputs = <<>> /\ results_by_index = <<>>
  /\ calls = <<>> /\ kg_file = <<>> /\ msec = <<>> /\ llm_result = <<>>
  /\ merges = 0

\* no citation being formatted
FmtIdle == fmt = <<>>

\* nothing written to the vector collections
IdxIdle == chroma = <<>>

\* no manifest loop running
ManIdle ==
  /\ stage = "none" /\ manifest = <<>> /\ rowNo = 0 /\ processed = <<>>
  /\ aborted = FALSE

\* the pipeline side at rest
KgIdle ==
  /\ phase = "idle" /\ runs = [p \in {} |-> 0] /\ base = EmptyGraph
  /\ file = <<>> /\ pos = 0 /\ restarts = 0

Init ==
  /\ graph = EmptyGraph
  /\ hist = <<>>
  /\ KgIdle /\ RrfIdle /\ RagIdle /\ TextIdle /\ LlmIdle /\ ManIdle /\ FmtIdle /\ IdxIdle

Upsert(sec) ==
  /\ Len(hist) < MaxUpserts
  /\ graph' = merge_section_tx(graph, sec)
  /\ hist' = Append(hist, sec)
  /\ UNCHANGED <<phase, runs, base, file, pos, restarts>>
  /\ UNCHANGED <<rrfVars, ragVars, textVars, llmVars, manVars, fmtVars, idxVars>>

Next == \E sec \in Records : Upsert(sec)

Spec == Init /\ [][Next]_vars

----------------------------------------------------------------------------
(* Graph state up to the choice of internal ids *)

Labels == {"Act", "Section", "DefinedTerm", "Role", "Obligation", "Penalty"}

NodeKey(g, i) == [label |-> g.nodes[i].label, id |-> g.nodes[i].id]

Canon(g) ==
  [nodes |-> [l \in Labels |->
                {[id |-> g.nodes[i].id, p |-> g.nodes[i].p] : i \in LabelIdx(g, l)}],
   edges |-> {[type |-> e.type, src |-> NodeKey(g, e.src),
               dst |-> NodeKey(g, e.dst), count |-> e.count] : e \in g.edges}]

Last(s) == s[Len(s)]

\* C1: applying merge_section_tx to the record that was applied last leaves
\* every node, edge and property of the graph as it was
C1_UpsertTwiceSameGraph ==
  [][\A sec \in Records :
       (hist # <<>> /\ Last(hist) = sec /\ hist' = Append(hist, sec))
         => graph' = graph]_vars

\* C2: no two nodes share a label and an id, and every Obligation / Penalty
\* that carries an OBLIGATION_ON / APPLIES_TO edge is a node its Section
\* reaches by IMPOSES_OBLIGATION / PRESCRIBES_PENALTY
C2_OneNodePerKey ==
  /\ \A i, j \in DOMAIN graph.nodes :
       NodeKey(graph, i) = NodeKey(graph, j) => i = j
  /\ \A e \in graph.edges :
       /\ e.type = "OBLIGATION_ON" =>
            \E f \in graph.edges : f.type = "IMPOSES_OBLIGATION" /\ f.dst = e.src
       /\ e.type = "APPLIES_TO" =>
            \E f \in graph.edges : f.type = "PRESCRIBES_PENALTY" /\ f.dst = e.src

\* C7: two records of different Sections, upserted last in either order,
\* give the same graph (up to internal ids), scalar properties included
C7_UpsertOrderIrrelevant ==
  (Len(hist) >= 2 /\ hist[Len(hist) - 1].section_id # Last(hist).section_id)
    => Canon(graph) =
       Canon(UpsertAll(EmptyGraph,
                       SubSeq(hist, 1, Len(hist) - 2)
                         \o <<Last(hist), hist[Len(hist) - 1]>>))

----------------------------------------------------------------------------
(* process_act_file under a crash and a re-run of the same file *)

\* sequences over S of length 0..n
RECURSIVE SeqsUpTo(_, _)
SeqsUpTo(S, n) ==
  IF n = 0 THEN {<<>>}
  ELSE LET shorter == SeqsUpTo(S, n - 1)
       IN shorter \cup {Append(q, x) : q \in shorter, x \in S}

\* an act file holds section records of one act
ActFiles ==
  {f \in SeqsUpTo(Records, MaxFile) :
     f # <<>> /\ \A i \in DOMAIN f : f[i].act_id = f[1].act_id}

InitIngest ==
  /\ graph = EmptyGraph
  /\ hist = <<>>
  /\ RrfIdle /\ RagIdle /\ TextIdle /\ LlmIdle /\ ManIdle /\ FmtIdle /\ IdxIdle
  /\ runs = [p \in {} |-> 0] /\ base = EmptyGraph
  /\ phase = "ingest"
  /\ file \in ActFiles
  /\ pos = 0
  /\ restarts = 0

\* one iteration of the loop of process_act_file
IngestSection ==
  /\ phase = "ingest"
  /\ pos < Len(file)
  /\ graph' = merge_section_tx(graph, file[pos + 1])
  /\ pos' = pos + 1
  /\ UNCHANGED <<hist, phase, runs, base, file, restarts>>
  /\ UNCHANGED <<rrfVars, ragVars, textVars, llmVars, manVars, fmtVars, idxVars>>

\* the process stops between two transactions and the same file is run again
CrashAndRerun ==
  /\ phase = "ingest"
  /\ pos < Len(file)
  /\ restarts < MaxRestarts
  /\ pos' = 0
  /\ restarts' = restarts + 1
  /\ UNCHANGED <<graph, hist, phase, runs, base, file>>
  /\ UNCHANGED <<rrfVars, ragVars, textVars, llmVars, manVars, fmtVars, idxVars>>

\* end of file: the count is printed
IngestDone ==
  /\ phase = "ingest"
  /\ pos = Len(file)
  /\ phase' = "done"
  /\ UNCHANGED <<graph, hist, runs, base, file, pos, restarts>>
  /\ UNCHANGED <<rrfVars, ragVars, textVars, llmVars, manVars, fmtVars, idxVars>>

NextIngest == IngestSection \/ CrashAndRerun \/ IngestDone

SpecIngest == InitIngest /\ [][NextIngest]_vars

\* C8: a run that was interrupted and re-run ends in the graph of the
\* uninterrupted run
C8_RerunReachesUninterrupted ==
  phase = "done" => Canon(graph) = Canon(UpsertAll(EmptyGraph, file))

----------------------------------------------------------------------------
(* Graph enrichment: 06_enrich_graph.py *)

\* index of the first ":" of a text, 0 when there is none
RECURSIVE FindColon(_, _)
FindColon(s, i) ==
  IF i > Len(s) THEN 0 ELSE IF s[i] = ":" THEN i ELSE FindColon(s, i + 1)

CitById(src, tgt) ==
  [source_section_id |-> src, by |-> "id", target_section_id |-> tgt,
   target_act_id |-> Null, target_section_no |-> Null]

CitByActNo(src, act, no) ==
  [source_section_id |-> src, by |-> "act", target_section_id |-> Null,
   target_act_id |-> act, target_section_no |-> no]

\* the citations one element of sec["citations"] yields (none or one)
CitationOf(sec, c) ==
  LET text == Strip(c.text)
      k == FindColon(text, 1)
  IN IF c.kind = "str"
     THEN IF text = <<>> THEN <<>>
          ELSE IF k > 0
          THEN <<CitByActNo(sec.section_id, Strip(SubSeq(text, 1, k - 1)),
                            Strip(SubSeq(text, k + 1, Len(text))))>>
          ELSE <<CitByActNo(sec.section_id, sec.act_id, text)>>
     ELSE IF c.kind # "dict" THEN <<>>
     ELSE IF Truthy(c.target_section_id)
     THEN <<CitById(sec.section_id, Strip(Str(c.target_section_id)))>>
     ELSE IF Truthy(c.target_act_id) /\ Truthy(c.target_section_no)
     THEN <<CitByActNo(sec.section_id, Strip(Str(c.target_act_id)),
                       Strip(Str(c.target_section_no)))>>
     ELSE IF Truthy(c.target_section_no) /\ Truthy(sec.act_id)
     THEN <<CitByActNo(sec.section_id, sec.act_id,
                       Strip(Str(c.target_section_no)))>>
     ELSE <<>>

RECURSIVE iter_citations_from_section(_, _)
iter_citations_from_section(sec, k) ==
  IF ~Truthy(sec.section_id) \/ k > Len(sec.citations) THEN <<>>
  ELSE CitationOf(sec, sec.citations[k])
         \o iter_citations_from_section(sec, k + 1)

\* the by-id statement with MERGE in place of MATCH for the target
merge_cites_by_id_tx_MergeTarget(g, source_section_id, target_section_id) ==
  LET g1 == MergeNode(g, SectionNode(target_section_id))
  IN MergeEdges(g1, "CITES", NodeIdx(g1, "Section", source_section_id),
                NodeIdx(g1, "Section", target_section_id))

merge_cites_by_id_tx(g, source_section_id, target_section_id) ==
  MergeEdges(g, "CITES", NodeIdx(g, "Section", source_section_id),
             NodeIdx(g, "Section", target_section_id))

merge_cites_by_act_and_no_tx(g, source_section_id, target_act_id, target_section_no) ==
  MergeEdges(g, "CITES", NodeIdx(g, "Section", source_section_id),
             {s2 \in LabelIdx(g, "Section") :
                /\ g.nodes[s2].p.sectionNo = target_section_no
                /\ \E e \in g.edges :
                     /\ e.type = "HAS_SECTION" /\ e.dst = s2
                     /\ e.src \in NodeIdx(g, "Act", target_act_id)})

RECURSIVE MergeCitations(_, _)
MergeCitations(g, cits) ==
  IF cits = <<>> THEN g
  ELSE LET cit == Head(cits)
       IN MergeCitations(
            IF cit.by = "id"
            THEN merge_cites_by_id_tx(g, cit.source_section_id,
                                      cit.target_section_id)
            ELSE merge_cites_by_act_and_no_tx(g, cit.source_section_id,
                                              cit.target_act_id,
                                              cit.target_section_no),
            Tail(cits))

\* Step 1: every section record of every source file
RECURSIVE add_cites_edges(_, _)
add_cites_edges(g, secs) ==
  IF secs = <<>> THEN g
  ELSE LET Rest(g1) == add_cites_edges(g1, Tail(secs))
       IN Strict(MergeCitations(g, iter_citations_from_section(Head(secs), 1)),
                 Rest)

\* step 2 with id(t1) <> id(t2) in place of id(t1) < id(t2)
add_same_term_as_BothWays(g) ==
  LET T == LabelIdx(g, "DefinedTerm")
      rows == {<<t1, t2>> \in T \X T :
                 /\ Lower(g.nodes[t1].p.name) = Lower(g.nodes[t2].p.name)
                 /\ t1 # t2}
  IN [g EXCEPT !.edges = @ \cup
        {Edge("SAME_TERM_AS", r[1], r[2]) : r \in
           {q \in rows : ~\E e \in g.edges :
              e.type = "SAME_TERM_AS" /\ e.src = q[1] /\ e.dst = q[2]}}]

\* Step 2
add_same_term_as(g) ==
  LET T == LabelIdx(g, "DefinedTerm")
      rows == {<<t1, t2>> \in T \X T :
                 /\ Lower(g.nodes[t1].p.name) = Lower(g.nodes[t2].p.name)
                 /\ t1 < t2}
  IN [g EXCEPT !.edges = @ \cup
        {Edge("SAME_TERM_AS", r[1], r[2]) : r \in
           {q \in rows : ~\E e \in g.edges :
              e.type = "SAME_TERM_AS" /\ e.src = q[1] /\ e.dst = q[2]}}]

\* Step 3
add_appears_in_act(g) ==
  LET rows == {<<e2.dst, e1.src>> : <<e1, e2>> \in
                 {q \in g.edges \X g.edges :
                    /\ q[1].type = "HAS_SECTION" /\ q[2].type = "MENTIONS_ROLE"
                    /\ q[1].dst = q[2].src
                    /\ g.nodes[q[1].src].label = "Act"
                    /\ g.nodes[q[1].dst].label = "Section"
                    /\ g.nodes[q[2].dst].label = "Role"}}
  IN [g EXCEPT !.edges = @ \cup
        {Edge("APPEARS_IN_ACT", r[1], r[2]) : r \in
           {q \in rows : ~\E e \in g.edges :
              e.type = "APPEARS_IN_ACT" /\ e.src = q[1] /\ e.dst = q[2]}}]

\* the MERGE of step 4 without its ON MATCH clause
MergeCoOccurs_NoOnMatch(g, r1, r2) ==
  LET M == {e \in g.edges :
              e.type = "CO_OCCURS_WITH" /\ e.src = r1 /\ e.dst = r2}
  IN IF M = {}
     THEN [g EXCEPT !.edges = @ \cup
             {[Edge("CO_OCCURS_WITH", r1, r2) EXCEPT !.count = Num(1)]}]
     ELSE g

\* MERGE (r1)-[c:CO_OCCURS_WITH]->(r2) ON CREATE SET c.count = 1
\*                                     ON MATCH SET c.count = c.count + 1
MergeCoOccurs(g, r1, r2) ==
  LET M == {e \in g.edges :
              e.type = "CO_OCCURS_WITH" /\ e.src = r1 /\ e.dst = r2}
  IN IF M = {}
     THEN [g EXCEPT !.edges = @ \cup
             {[Edge("CO_OCCURS_WITH", r1, r2) EXCEPT !.count = Num(1)]}]
     ELSE [g EXCEPT !.edges = (@ \ M) \cup
             {[e EXCEPT !.count = Num(e.count.v + 1)] : e \in M}]

\* the rows (s, r1, r2) of step 4, taken in order
RECURSIVE CoOccurRows(_, _)
CoOccurRows(g, rows) ==
  IF rows = {} THEN g
  ELSE LET r == CHOOSE x \in rows : \A y \in rows :
                  \/ x[1] < y[1]
                  \/ x[1] = y[1] /\ x[2] < y[2]
                  \/ x[1] = y[1] /\ x[2] = y[2] /\ x[3] <= y[3]
       IN CoOccurRows(MergeCoOccurs(g, r[2], r[3]), rows \ {r})

RolesOf(g, s) ==
  {e.dst : e \in {f \in g.edges : f.type = "MENTIONS_ROLE" /\ f.src = s
                                  /\ g.nodes[f.dst].label = "Role"}}

\* step 4 written over the Role -> Act edges of step 3 instead of the Sections
add_role_cooccurrence_ByAct(g) ==
  LET InAct(r, a) == \E e \in g.edges :
                       e.type = "APPEARS_IN_ACT" /\ e.src = r /\ e.dst = a
  IN CoOccurRows(g, {<<a, r1, r2>> \in
                       LabelIdx(g, "Act") \X LabelIdx(g, "Role")
                         \X LabelIdx(g, "Role") :
                       InAct(r1, a) /\ InAct(r2, a) /\ r1 < r2})

\* Step 4
add_role_cooccurrence(g) ==
  CoOccurRows(g, {<<s, r1, r2>> \in
                    LabelIdx(g, "Section") \X LabelIdx(g, "Role")
                      \X LabelIdx(g, "Role") :
                    r1 \in RolesOf(g, s) /\ r2 \in RolesOf(g, s) /\ r1 < r2})

\* p.x IS NOT NULL AND p.x <> ""
Present(x) == x # Null /\ x # <<>>

PenaltiesOf(g, s) ==
  {e.dst : e \in {f \in g.edges : f.type = "PRESCRIBES_PENALTY" /\ f.src = s
                                  /\ g.nodes[f.dst].label = "Penalty"}}

RECURSIVE BaseScore(_, _)
BaseScore(g, P) ==
  IF P = {} THEN 0
  ELSE LET p == Min(P)
       IN (IF Present(g.nodes[p].p.imprisonment) THEN 2 ELSE 0)
          + (IF Present(g.nodes[p].p.fine_amount) THEN 1 ELSE 0)
          + BaseScore(g, P \ {p})

\* step 5 adding to the stored score instead of replacing it
add_severity_scores_Increment(g) ==
  LET Scored == {s \in LabelIdx(g, "Section") : PenaltiesOf(g, s) # {}}
      Old(i) == IF g.nodes[i].p.severity_score.isnull THEN 0
                ELSE g.nodes[i].p.severity_score.v
      SetScore(i) ==
        [g.nodes[i] EXCEPT !.p.severity_score =
           Num(Old(i) + BaseScore(g, PenaltiesOf(g, i))
               + Cardinality(PenaltiesOf(g, i)))]
  IN [g EXCEPT !.nodes =
        [i \in DOMAIN g.nodes |-> IF i \in Scored THEN SetScore(i) ELSE g.nodes[i]]]

\* Step 5
add_severity_scores(g) ==
  LET Scored == {s \in LabelIdx(g, "Section") : PenaltiesOf(g, s) # {}}
      SetScore(i) ==
        [g.nodes[i] EXCEPT !.p.severity_score =
           Num(BaseScore(g, PenaltiesOf(g, i)) + Cardinality(PenaltiesOf(g, i)))]
  IN [g EXCEPT !.nodes =
        [i \in DOMAIN g.nodes |-> IF i \in Scored THEN SetScore(i) ELSE g.nodes[i]]]

Passes == {"cites", "same_term", "appears", "cooccur", "severity"}

RunPass(g, secs, p) ==
  CASE p = "cites" -> add_cites_edges(g, secs)
    [] p = "same_term" -> add_same_term_as(g)
    [] p = "appears" -> add_appears_in_act(g)
    [] p = "cooccur" -> add_role_cooccurrence(g)
    [] p = "severity" -> add_severity_scores(g)

\* main(): the five steps in source order
EnrichMain(g, secs) ==
  Strict(Strict(Strict(Strict(add_cites_edges(g, secs), add_same_term_as),
                       add_appears_in_act),
                add_role_cooccurrence),
         add_severity_scores)

(* The enrichment runs on the graph that the upsert of the source files    *)
(* built; a step may be run again.                                         *)
InitEnrich ==
  /\ file \in SeqsUpTo(Records, MaxBase)
  /\ graph = UpsertAll(EmptyGraph, file)
  /\ base = graph
  /\ runs = [p \in Passes |-> 0]
  /\ phase = "enrich"
  /\ hist = <<>> /\ pos = 0 /\ restarts = 0
  /\ RrfIdle /\ RagIdle /\ TextIdle /\ LlmIdle /\ ManIdle /\ FmtIdle /\ IdxIdle

\* how many times passes were run again so far
RECURSIVE Reruns(_, _)
Reruns(r, P) ==
  IF P = {} THEN 0
  ELSE LET p == CHOOSE x \in P : TRUE
       IN (IF r[p] > 1 THEN r[p] - 1 ELSE 0) + Reruns(r, P \ {p})

EnrichStep(p) ==
  /\ phase = "enrich"
  /\ runs[p] = 0 \/ Reruns(runs, Passes) < MaxReruns
  /\ graph' = RunPass(graph, file, p)
  /\ runs' = [runs EXCEPT ![p] = @ + 1]
  /\ UNCHANGED <<hist, phase, base, file, pos, restarts>>
  /\ UNCHANGED <<rrfVars, ragVars, textVars, llmVars, manVars, fmtVars, idxVars>>

NextEnrich == \E p \in Passes : EnrichStep(p)

SpecEnrich == InitEnrich /\ [][NextEnrich]_vars

\* C9: a second run of a pass, directly after its first, changes nothing
C9_PassRerunChangesNothing ==
  [][\A p \in Passes :
       (runs[p] >= 1 /\ runs'[p] = runs[p] + 1) => graph' = graph]_vars

\* C10: the five passes, each run once in any order, end in the graph that
\* main() builds
C10_PassOrderIrrelevant ==
  (\A p \in Passes : runs[p] = 1) => graph = EnrichMain(base, file)

C10_AllPassesRanOnce ==
  /\ \A p \in Passes : runs[p] = 1
  /\ \A t \in {"CITES", "SAME_TERM_AS", "APPEARS_IN_ACT", "CO_OCCURS_WITH"} :
       \E e \in graph.edges : e.type = t
  /\ \E i \in DOMAIN graph.nodes :
       graph.nodes[i].label = "Section" /\ ~graph.nodes[i].p.severity_score.isnull

\* the Sections that mention both roles
CoMentions(g, r1, r2) ==
  {s \in LabelIdx(g, "Section") : {r1, r2} \subseteq RolesOf(g, s)}

\* the CO_OCCURS_WITH edges between two roles, in either direction
CoOccursBetween(g, r1, r2) ==
  {e \in g.edges : e.type = "CO_OCCURS_WITH" /\ {e.src, e.dst} = {r1, r2}}

\* C11: after the first run of add_role_cooccurrence (no CO_OCCURS_WITH edge
\* before it), two distinct Roles co-mentioned in N >= 1 Sections are joined
\* by exactly one CO_OCCURS_WITH edge, in one direction, with count N; Roles
\* never co-mentioned are joined by none; no Role is joined to itself
C11_CoOccurrenceCount ==
  runs["cooccur"] = 1 =>
    \A r1, r2 \in LabelIdx(graph, "Role") :
      LET E == CoOccursBetween(graph, r1, r2)
          N == Cardinality(CoMentions(graph, r1, r2))
      IN IF r1 # r2 /\ N >= 1
         THEN Cardinality(E) = 1 /\ \A e \in E : e.count = Num(N)
         ELSE E = {}

\* the pass ran once on a graph where two Roles are co-mentioned in two
\* Sections and a third Role is mentioned by none
C11_TwoSectionsCounted ==
  /\ phase = "enrich" /\ runs["cooccur"] = 1
  /\ \E e \in graph.edges : e.type = "CO_OCCURS_WITH" /\ e.count = Num(2)
  /\ \E r1, r2 \in LabelIdx(graph, "Role") :
       r1 # r2 /\ CoMentions(graph, r1, r2) = {}

\* two texts are equal when case is ignored
SameIgnoringCase(a, b) ==
  /\ Len(a) = Len(b)
  /\ \A i \in DOMAIN a : a[i] = b[i] \/ LowerChar(a[i]) = b[i] \/ a[i] = LowerChar(b[i])

SameTermEdges(g, t1, t2) ==
  {e \in g.edges : e.type = "SAME_TERM_AS" /\ e.src = t1 /\ e.dst = t2}

\* C16: after add_same_term_as has run once or more, two distinct
\* DefinedTerm nodes whose names are equal ignoring case are joined by one
\* SAME_TERM_AS edge, from the lower to the higher internal id; there is no
\* SAME_TERM_AS edge the other way, on one node, or between other names
C16_SameTermOncePerPair ==
  runs["same_term"] >= 1 =>
    /\ \A t1, t2 \in LabelIdx(graph, "DefinedTerm") :
         IF t1 < t2 /\ SameIgnoringCase(graph.nodes[t1].p.name, graph.nodes[t2].p.name)
         THEN Cardinality(SameTermEdges(graph, t1, t2)) = 1
         ELSE SameTermEdges(graph, t1, t2) = {}
    /\ \A e \in graph.edges : e.type = "SAME_TERM_AS" =>
         {e.src, e.dst} \subseteq LabelIdx(graph, "DefinedTerm")

\* the pass ran twice on terms "Tx" and "tx" of two acts and a term "to"
C16_RanTwiceOnSharedName ==
  /\ phase = "enrich" /\ runs["same_term"] = 2
  /\ \E e \in graph.edges : e.type = "SAME_TERM_AS"
  /\ \E t1, t2 \in LabelIdx(graph, "DefinedTerm") :
       ~SameIgnoringCase(graph.nodes[t1].p.name, graph.nodes[t2].p.name)

----------------------------------------------------------------------------
(* The citation pass alone, on a graph that holds the first records of the  *)
(* source file: ingestion may have stopped before its end.                  *)

InitCites ==
  /\ file \in SeqsUpTo(Records, MaxBase)
  /\ pos \in 0 .. Len(file)
  /\ graph = UpsertAll(EmptyGraph, SubSeq(file, 1, pos))
  /\ base = graph
  /\ runs = [p \in {"cites"} |-> 0]
  /\ phase = "cites"
  /\ hist = <<>> /\ restarts = 0
  /\ RrfIdle /\ RagIdle /\ TextIdle /\ LlmIdle /\ ManIdle /\ FmtIdle /\ IdxIdle

\* add_cites_edges(session)
CitePass ==
  /\ phase = "cites"
  /\ runs["cites"] <= MaxReruns
  /\ graph' = add_cites_edges(graph, file)
  /\ runs' = [runs EXCEPT !["cites"] = @ + 1]
  /\ UNCHANGED <<hist, phase, base, file, pos, restarts>>
  /\ UNCHANGED <<rrfVars, ragVars, textVars, llmVars, manVars, fmtVars, idxVars>>

NextCites == CitePass

SpecCites == InitCites /\ [][NextCites]_vars

\* the Sections with the section id a citation carries
TargetsById(g, c) ==
  IF c.kind = "dict" /\ c.target_section_id \notin {Null, <<>>}
  THEN NodeIdx(g, "Section", Strip(Str(c.target_section_id)))
  ELSE {}

\* the Sections of an Act with a section number
SectionsByActNo(g, act, no) ==
  {s \in LabelIdx(g, "Section") :
     /\ g.nodes[s].p.sectionNo = no
     /\ \E a \in NodeIdx(g, "Act", act) :
          \E e \in g.edges : e.type = "HAS_SECTION" /\ e.src = a /\ e.dst = s}

\* the Sections with the (act id, section number) a citation of record sec
\* carries or implies
TargetsByActNo(g, sec, c) ==
  IF c.kind = "str"
  THEN LET text == Strip(c.text)
           k == FindColon(text, 1)
       IN IF text = <<>> THEN {}
          ELSE IF k > 0
          THEN SectionsByActNo(g, Strip(SubSeq(text, 1, k - 1)),
                               Strip(SubSeq(text, k + 1, Len(text))))
          ELSE SectionsByActNo(g, sec.act_id, text)
  ELSE IF c.kind = "dict" /\ c.target_section_no \notin {Null, <<>>}
  THEN SectionsByActNo(g,
         IF c.target_act_id \notin {Null, <<>>} THEN Strip(Str(c.target_act_id))
         ELSE sec.act_id,
         Strip(Str(c.target_section_no)))
  ELSE {}

Cites(g, s, d) == \E e \in g.edges : e.type = "CITES" /\ e.src = s /\ e.dst = d

\* C14: after the citation pass, every citation of a record whose Section
\* exists is a CITES edge from that Section to the Section with the target
\* section id when there is one, and otherwise to the Section found by the
\* (act id, section number) the citation carries or implies
C14_CitationsResolved ==
  runs["cites"] >= 1 =>
    \A k \in DOMAIN file : \A j \in DOMAIN file[k].citations :
      LET c == file[k].citations[j]
          byId == TargetsById(graph, c)
          want == IF byId # {} THEN byId ELSE TargetsByActNo(graph, file[k], c)
      IN \A s \in NodeIdx(graph, "Section", file[k].section_id) :
           \A d \in want : Cites(graph, s, d)

\* a citation of record k that finds a Section by either lookup
Resolves(g, k, j) ==
  /\ NodeIdx(g, "Section", file[k].section_id) # {}
  /\ TargetsById(g, file[k].citations[j])
       \cup TargetsByActNo(g, file[k], file[k].citations[j]) # {}

\* C15: the citation pass creates no node, and every edge it creates is a
\* CITES edge between two existing Sections, from the Section of a record to
\* a Section one of that record's citations finds; a citation whose source
\* or target Section is missing leaves nothing behind and the citations
\* after it are still processed
C15_UnresolvedDropped ==
  runs["cites"] >= 1 =>
    /\ graph.nodes = base.nodes
    /\ base.edges \subseteq graph.edges
    /\ \A e \in graph.edges \ base.edges :
         /\ e.type = "CITES"
         /\ \E k \in DOMAIN file : \E j \in DOMAIN file[k].citations :
              /\ e.src \in NodeIdx(graph, "Section", file[k].section_id)
              /\ e.dst \in TargetsById(graph, file[k].citations[j])
                    \cup TargetsByActNo(graph, file[k], file[k].citations[j])

\* the pass ran over a record whose first citation finds no Section and
\* whose second citation became an edge, and over a record with citations
\* whose own Section is not in the graph
C15_DroppedThenResolved ==
  /\ phase = "cites" /\ runs["cites"] = 1
  /\ \E k \in DOMAIN file :
       /\ Len(file[k].citations) >= 2
       /\ ~Resolves(graph, k, 1)
       /\ \E d \in TargetsByActNo(graph, file[k], file[k].citations[2]) :
            \E s \in NodeIdx(graph, "Section", file[k].section_id) :
              Cites(graph, s, d) /\ ~Cites(base, s, d)
  /\ \E k \in DOMAIN file :
       file[k].citations # <<>> /\ NodeIdx(graph, "Section", file[k].section_id) = {}

----------------------------------------------------------------------------
(* The severity pass between upserts: sections are upserted, the pass runs,  *)
(* a section is upserted again with one more penalty, the pass runs again.  *)

SevRecords == {Rec1, Rec2, Rec3, Rec4}

\* a penalty with imprisonment and a (numeric) fine amount
BothPenalty(subject) == Pen(subject, <<"2", "y">>, <<"#", "5">>)

InitSeverity ==
  /\ graph = EmptyGraph
  /\ hist = <<>>
  /\ base = EmptyGraph
  /\ phase = "fresh"
  /\ runs = [p \in {} |-> 0] /\ file = <<>> /\ pos = 0 /\ restarts = 0
  /\ RrfIdle /\ RagIdle /\ TextIdle /\ LlmIdle /\ ManIdle /\ FmtIdle /\ IdxIdle

SevUpsert(sec) ==
  /\ phase = "fresh"
  /\ Len(hist) < MaxBase
  /\ graph' = merge_section_tx(graph, sec)
  /\ hist' = Append(hist, sec)
  /\ UNCHANGED <<phase, runs, base, file, pos, restarts>>
  /\ UNCHANGED <<rrfVars, ragVars, textVars, llmVars, manVars, fmtVars, idxVars>>

\* session.run of step 5
SevScore ==
  /\ phase \in {"fresh", "added"}
  /\ graph' = add_severity_scores(graph)
  /\ phase' = IF phase = "fresh" THEN "scored" ELSE "rescored"
  /\ UNCHANGED <<hist, runs, base, file, pos, restarts>>
  /\ UNCHANGED <<rrfVars, ragVars, textVars, llmVars, manVars, fmtVars, idxVars>>

\* the current record of a section is written again with one more penalty,
\* which has imprisonment and fine amount
AddPenalty(k, subject) ==
  /\ phase = "scored"
  /\ k \in DOMAIN hist
  /\ \A j \in DOMAIN hist : j > k => hist[j].section_id # hist[k].section_id
  /\ LET sec == [hist[k] EXCEPT !.penalties = Append(@, BothPenalty(subject))]
     IN /\ graph' = merge_section_tx(graph, sec)
        /\ hist' = Append(hist, sec)
  /\ base' = graph
  /\ phase' = "added"
  /\ UNCHANGED <<runs, file, pos, restarts>>
  /\ UNCHANGED <<rrfVars, ragVars, textVars, llmVars, manVars, fmtVars, idxVars>>

NextSeverity ==
  \/ \E sec \in SevRecords : SevUpsert(sec)
  \/ SevScore
  \/ \E k \in 1..MaxBase : \E subject \in {Null, <<"c">>} : AddPenalty(k, subject)

SpecSeverity == InitSeverity /\ [][NextSeverity]_vars

\* the Penalty nodes a Section prescribes
PrescribedBy(g, s) ==
  {p \in LabelIdx(g, "Penalty") :
     \E e \in g.edges : e.type = "PRESCRIBES_PENALTY" /\ e.src = s /\ e.dst = p}

\* the severity formula, counted
SeverityOf(g, s) ==
  LET P == PrescribedBy(g, s)
      Has(p, f) == g.nodes[p].p[f] # Null /\ g.nodes[p].p[f] # <<>>
  IN 2 * Cardinality({p \in P : Has(p, "imprisonment")})
     + Cardinality({p \in P : Has(p, "fine_amount")})
     + Cardinality(P)

ScoreOr0(g, s) ==
  IF g.nodes[s].p.severity_score.isnull THEN 0 ELSE g.nodes[s].p.severity_score.v

\* C12: after the severity pass every Section that prescribes a Penalty has
\* severity_score = 2 per penalty with imprisonment + 1 per penalty with a
\* fine amount + the number of its penalties, whatever it was before
C12_SeveritySet ==
  phase \in {"scored", "rescored"} =>
    \A s \in LabelIdx(graph, "Section") :
      PrescribedBy(graph, s) # {} =>
        graph.nodes[s].p.severity_score = Num(SeverityOf(graph, s))

\* the pass ran on a Section that already had another score
C12_ScoreReplaced ==
  /\ phase = "rescored"
  /\ \E s \in LabelIdx(base, "Section") :
       /\ ~base.nodes[s].p.severity_score.isnull
       /\ graph.nodes[s].p.severity_score # base.nodes[s].p.severity_score
       /\ graph.nodes[s].p.severity_score = Num(SeverityOf(graph, s))

\* C13: after a penalty with imprisonment and fine amount was added to a
\* Section and the pass ran again, the Section's score is larger than before
\* the addition (no score counting as 0), by 3 plus the growth of its number
\* of penalties
C13_SeverityGrowsBy3 ==
  phase = "rescored" =>
    \A s \in NodeIdx(graph, "Section", Last(hist).section_id) :
      LET delta == ScoreOr0(graph, s) - ScoreOr0(base, s)
          grown == Cardinality(PrescribedBy(graph, s))
                     - Cardinality(PrescribedBy(base, s))
      IN delta > 0 /\ delta = 3 + grown

----------------------------------------------------------------------------
(* Python float (IEEE 754 double, round to nearest, ties to even) on the   *)
(* range rrf_fuse uses.  A value is an integer count N of units 2^-59,     *)
(* written in three limbs of 20 bits: N = h * 2^40 + m * 2^20 + l.  A      *)
(* double in [2^-7, 2^-6) is a multiple of 1 unit, in [2^-6, 2^-5) of 2    *)
(* units, in [2^-5, 2^-4) of 4 units.                                      *)

Limb == 2 ^ 20

FloatZero == [h |-> 0, m |-> 0, l |-> 0]

FloatLess(a, b) ==
  \/ a.h < b.h
  \/ a.h = b.h /\ a.m < b.m
  \/ a.h = b.h /\ a.m = b.m /\ a.l < b.l

\* exact N + d for a small integer d (carry and borrow between limbs)
LimbsPlus(a, d) ==
  LET l0 == a.l + d
      cl == IF l0 < 0 THEN -1 ELSE l0 \div Limb
      m0 == a.m + cl
      cm == IF m0 < 0 THEN -1 ELSE m0 \div Limb
  IN [h |-> a.h + cm, m |-> m0 - cm * Limb, l |-> l0 - cl * Limb]

\* exact sum of two values
LimbsAdd(a, b) ==
  LET l0 == a.l + b.l
      m0 == a.m + b.m + l0 \div Limb
  IN [h |-> a.h + b.h + m0 \div Limb, m |-> m0 % Limb, l |-> l0 % Limb]

\* units in the last place of the binade N lies in
Ulp(a) == IF a.h < 2 ^ 13 THEN 1 ELSE IF a.h < 2 ^ 14 THEN 2 ELSE 4

\* round N + frac to a double; frac < 1 is given by how 2 * frac compares
\* with 1: -1 below, 0 equal, 1 above, and by whether it is zero
FloatRound(a, fracIsZero, fracVsHalf) ==
  LET u == Ulp(a)
      low == a.l % u
      down == LimbsPlus(a, -low)
      up == LimbsPlus(down, u)
      \* position of low + frac against u / 2
      side == IF u = 1 THEN fracVsHalf
              ELSE IF 2 * low < u THEN -1
              ELSE IF 2 * low > u THEN 1
              ELSE IF fracIsZero THEN 0 ELSE 1
      evenDown == ((down.l \div u) % 2) = 0
  IN IF side < 0 THEN down
     ELSE IF side > 0 THEN up
     ELSE IF evenDown THEN down ELSE up

\* 1.0 / n for 17 <= n < 128
FloatRecip(n) ==
  LET q2 == (2 ^ 19) \div n
      r2 == (2 ^ 19) % n
      q1 == (r2 * Limb) \div n
      r1 == (r2 * Limb) % n
      q0 == (r1 * Limb) \div n
      r0 == (r1 * Limb) % n
  IN FloatRound([h |-> q2, m |-> q1, l |-> q0], r0 = 0,
                IF 2 * r0 < n THEN -1 ELSE IF 2 * r0 = n THEN 0 ELSE 1)

\* a + b
FloatAdd(a, b) == FloatRound(LimbsAdd(a, b), TRUE, -1)

----------------------------------------------------------------------------
(* rrf_fuse: Search.py *)

K_RRF == 60
TOP_K == 10

\* the Neo4j section ids of the short lists
SectionIds == 1 .. MaxList + 1

\* ranked lists: no id twice
RankedLists ==
  {l \in SeqsUpTo(SectionIds, MaxList) :
     \A i, j \in DOMAIN l : l[i] = l[j] => i = j}

\* ranks at which the long lists hold the ids 1 and 2
TrackedRanks == {5, 11, 27, 38}

\* a list of LongLen results: id 1 at rank px, id 2 at rank py, and ids
\* that no other list holds elsewhere
LongList(px, py, off) ==
  [i \in 1 .. LongLen |->
     IF i - 1 = px THEN 1 ELSE IF i - 1 = py THEN 2 ELSE off + i]

\* position of sid among the keys of the dict, 0 when it is no key
KeyPos(scores, sid) ==
  IF \E i \in DOMAIN scores : scores[i].sid = sid
  THEN CHOOSE i \in DOMAIN scores : scores[i].sid = sid
  ELSE 0

\* scores[sid] += 1.0 / (k_rrf + rank + 1) on a defaultdict(float), which
\* keeps its keys in insertion order
RrfAdd(scores, sid, rank, k_rrf) ==
  LET inc == FloatRecip(k_rrf + rank + 1)
      i == KeyPos(scores, sid)
  IN IF i = 0
     THEN Append(scores, [sid |-> sid, score |-> FloatAdd(FloatZero, inc)])
     ELSE [scores EXCEPT ![i].score = FloatAdd(@, inc)]

\* for rank, r in enumerate(results), over results[lo .. hi]: rank is
\* 0-based, positions are 1-based. The loop is run as its first half followed
\* by its second half, which keeps the evaluation shallow
RECURSIVE RrfAccumulate(_, _, _, _, _)
RrfAccumulate(scores, results, lo, hi, k_rrf) ==
  IF lo > hi THEN scores
  ELSE IF lo = hi THEN RrfAdd(scores, results[lo], lo - 1, k_rrf)
  ELSE LET mid == (lo + hi) \div 2
           SecondHalf(firstHalf) ==
             RrfAccumulate(firstHalf, results, mid + 1, hi, k_rrf)
       IN Strict(RrfAccumulate(scores, results, lo, mid, k_rrf), SecondHalf)

\* sorted(items, key=score, reverse=True): the sort is stable, so an item
\* comes after the items of greater score and the earlier items of equal score
SortedDesc(items) ==
  LET place == [i \in DOMAIN items |->
                  1 + Cardinality({j \in DOMAIN items :
                        \/ FloatLess(items[i].score, items[j].score)
                        \/ j < i /\ ~FloatLess(items[j].score, items[i].score)})]
  IN [p \in DOMAIN items |-> items[CHOOSE i \in DOMAIN items : place[i] = p]]

\* the fusion that scores the vector list only: the lexical results add their
\* ids with no score
rrf_fuse_VectorOnly(vector_results, lexical_results, k_rrf, top_k) ==
  LET Lexical(afterVector) ==
        RrfAccumulate(afterVector, lexical_results, 1, Len(lexical_results),
                      k_rrf)
      vectorScores ==
        RrfAccumulate(<<>>, vector_results, 1, Len(vector_results), k_rrf)
      all == Strict(vectorScores, Lexical)
      scores == [i \in DOMAIN all |->
                   IF i <= Len(vectorScores) THEN vectorScores[i]
                   ELSE [all[i] EXCEPT !.score = FloatZero]]
      fusedItems == SortedDesc(scores)
      n == IF Len(fusedItems) < top_k THEN Len(fusedItems) ELSE top_k
  IN [i \in 1 .. n |-> fusedItems[i].sid]

rrf_fuse(vector_results, lexical_results, k_rrf, top_k) ==
  LET Lexical(afterVector) ==
        RrfAccumulate(afterVector, lexical_results, 1, Len(lexical_results),
                      k_rrf)
      scores ==
        Strict(RrfAccumulate(<<>>, vector_results, 1, Len(vector_results), k_rrf),
               Lexical)
      fusedItems == SortedDesc(scores)
      n == IF Len(fusedItems) < top_k THEN Len(fusedItems) ELSE top_k
  IN [i \in 1 .. n |-> fusedItems[i].sid]

InitRRF ==
  /\ \/ /\ \E n \in 0 .. MaxList : vecList = [i \in 1 .. n |-> i]
        /\ lexList \in RankedLists
        /\ topK \in (1 .. MaxList) \cup {TOP_K}
     \/ /\ \E vx, vy, lx, ly \in TrackedRanks :
             /\ vx # vy /\ lx # ly
             /\ vecList = LongList(vx, vy, 100)
             /\ lexList = LongList(lx, ly, 200)
        /\ topK = TOP_K
  /\ fused = <<>>
  /\ pc = "fuse"
  /\ graph = EmptyGraph /\ hist = <<>> /\ KgIdle /\ TextIdle /\ LlmIdle /\ ManIdle /\ FmtIdle /\ IdxIdle
  /\ store = <<>> /\ index = <<>> /\ query = <<>>
  /\ ids = <<>> /\ tierIds = <<>> /\ ran = {} /\ evidence = <<>>
  /\ result = "none"

Fuse ==
  /\ pc = "fuse"
  /\ fused' = rrf_fuse(vecList, lexList, K_RRF, topK)
  /\ pc' = "fused"
  /\ UNCHANGED <<textVars, llmVars, manVars, kgVars, vecList, lexList, topK, fmtVars, idxVars>>
  /\ UNCHANGED <<store, index, query, ids, tierIds, ran, evidence, result>>

NextRRF == Fuse

SpecRRF == InitRRF /\ [][NextRRF]_vars

(* The score of the claim, as an exact fraction num/den *)

FracAdd(a, b) == [num |-> a.num * b.den + b.num * a.den, den |-> a.den * b.den]
FracLess(a, b) == a.num * b.den < b.num * a.den

RankIn(l, id) == (CHOOSE i \in DOMAIN l : l[i] = id) - 1
InList(l, id) == \E i \in DOMAIN l : l[i] = id
ExactTerm(l, id) ==
  IF InList(l, id) THEN [num |-> 1, den |-> K_RRF + RankIn(l, id) + 1]
  ELSE [num |-> 0, den |-> 1]
ExactScore(id) == FracAdd(ExactTerm(vecList, id), ExactTerm(lexList, id))

\* the same sum in double precision: each term rounded, then added
ComputedTerm(l, id) ==
  IF InList(l, id) THEN FloatRecip(K_RRF + RankIn(l, id) + 1) ELSE FloatZero
ComputedScore(id) ==
  FloatAdd(FloatAdd(FloatZero, ComputedTerm(vecList, id)), ComputedTerm(lexList, id))

\* first appearance: the vector list first, then the lexical list
FirstSeen(id) ==
  IF InList(vecList, id) THEN RankIn(vecList, id)
  ELSE Len(vecList) + RankIn(lexList, id)

AllIds ==
  {vecList[i] : i \in DOMAIN vecList} \cup {lexList[i] : i \in DOMAIN lexList}

\* the fused list is the first top_k ids by descending Score, the ids of
\* equal Score in order of first appearance
FusedInOrder(Score(_), Less(_, _)) ==
  LET sc == [x \in AllIds |-> Score(x)]
      seen == [x \in AllIds |-> FirstSeen(x)]
      Before(a, b) ==
        \/ Less(sc[b], sc[a])
        \/ ~Less(sc[a], sc[b]) /\ seen[a] < seen[b]
  IN /\ Len(fused) = IF Cardinality(AllIds) < topK THEN Cardinality(AllIds) ELSE topK
     /\ \A i \in DOMAIN fused : fused[i] \in AllIds
     /\ \A i, j \in DOMAIN fused : i < j => Before(fused[i], fused[j])
     /\ \A i \in DOMAIN fused : \A x \in AllIds :
          (\A j \in DOMAIN fused : fused[j] # x) => Before(fused[i], x)

\* vector [A,B,C], lexical [B,A,D] (ids 1..4), k = 60: [A,B,C,D], A and B
\* tied, C and D tied
ExampleHolds ==
  (vecList = <<1, 2, 3>> /\ lexList = <<2, 1, 4>> /\ topK = TOP_K)
    => /\ fused = <<1, 2, 3, 4>>
       /\ ExactScore(1) = [num |-> 61 + 62, den |-> 61 * 62]
       /\ ~FracLess(ExactScore(1), ExactScore(2))
       /\ ~FracLess(ExactScore(2), ExactScore(1))
       /\ ~FracLess(ExactScore(3), ExactScore(4))
       /\ ~FracLess(ExactScore(4), ExactScore(3))
       /\ ComputedScore(1) = ComputedScore(2)
       /\ ComputedScore(3) = ComputedScore(4)

\* C4 as stated: descending exact score, ids of equal exact score in order of
\* first appearance, cut to top_k, and the example
C4_RrfOrderExact == pc = "fused" => FusedInOrder(ExactScore, FracLess) /\ ExampleHolds

\* What rrf_fuse does: descending double-precision score (each term
\* 1.0/(k+rank+1) rounded, the terms added), ids of equal computed score in
\* order of first appearance, cut to top_k, and the example
RrfOrderComputed ==
  pc = "fused" => FusedInOrder(ComputedScore, FloatLess) /\ ExampleHolds

\* the example of the claim has been fused
C4_ExampleFused ==
  /\ pc = "fused"
  /\ vecList = <<1, 2, 3>> /\ lexList = <<2, 1, 4>> /\ topK = TOP_K
  /\ fused = <<1, 2, 3, 4>>

----------------------------------------------------------------------------
(* Title back-fill: 08_update_neo4j_act_titles.py *)

\* MATCH (a:Act {id: $act_id}) SET a.title = $title, skipped when the act id
\* or the stripped title is empty
update_act_title(g, act_id, act_title) ==
  LET title == Strip(OrEmpty(act_title))
  IN IF ~Truthy(act_id) \/ title = <<>> THEN g
     ELSE [g EXCEPT !.nodes =
             [i \in DOMAIN g.nodes |->
                IF i \in NodeIdx(g, "Act", act_id)
                THEN [g.nodes[i] EXCEPT !.p.title = title]
                ELSE g.nodes[i]]]

----------------------------------------------------------------------------
(* Vector index: Indexing.py.  A collection is a sequence of records in    *)
(* upsert order; distance is the record's cosine distance to the query of  *)
(* the run, which the embedding model decides.                             *)

EmptyIndex == [sections |-> <<>>, acts |-> <<>>]

\* the elements of a set of naturals in ascending order
RECURSIVE SortedIds(_)
SortedIds(S) == IF S = {} THEN <<>> ELSE <<Min(S)>> \o SortedIds(S \ {Min(S)})

\* MATCH (a:Act)-[:HAS_SECTION]->(s:Section): the rows as (act, section)
\* pairs, in the order of the section's and then the act's internal id
OwnedRows(g) ==
  LET pairs == {<<e.dst, e.src>> : e \in {x \in g.edges :
                   /\ x.type = "HAS_SECTION"
                   /\ g.nodes[x.src].label = "Act"
                   /\ g.nodes[x.dst].label = "Section"}}
      maxId == Len(g.nodes) + 1
      code == {pr[1] * maxId + pr[2] : pr \in pairs}
      order == SortedIds(code)
  IN [i \in DOMAIN order |->
        [a |-> order[i] % maxId, s |-> order[i] \div maxId]]

\* index_sections_into_chroma: one record per row, the later row of a
\* section replaces the earlier (upsert by str(sid))
index_sections_into_chroma(g, dist) ==
  LET rows == OwnedRows(g)
      last == {i \in DOMAIN rows : \A j \in DOMAIN rows : rows[j].s = rows[i].s => j <= i}
      keep == SortedIds(last)
  IN [k \in DOMAIN keep |->
        LET row == rows[keep[k]]
            sec == g.nodes[row.s]
            act == g.nodes[row.a]
        IN [neo4j_id |-> row.s,
            act_title |-> act.p.title,
            act_year |-> act.p.year,
            section_id |-> sec.p.section_id,
            sectionNo |-> sec.p.sectionNo,
            citation |-> sec.p.citation,
            node_label |-> "Section",
            distance |-> dist[row.s]]]

\* index_acts_into_chroma: MATCH (a:Act)
index_acts_into_chroma(g, dist) ==
  LET acts == SortedIds(LabelIdx(g, "Act"))
  IN [k \in DOMAIN acts |->
        [neo4j_id |-> acts[k],
         title |-> g.nodes[acts[k]].p.title,
         year |-> g.nodes[acts[k]].p.year,
         node_label |-> "Act",
         distance |-> dist[acts[k]]]]

\* the first n elements
Take(l, n) == SubSeq(l, 1, IF Len(l) < n THEN Len(l) ELSE n)

\* collection.query: the records nearest first, records of equal distance
\* in upsert order, at most n_results of them
NearestFirst(recs, n_results) ==
  LET place == [i \in DOMAIN recs |->
                  1 + Cardinality({j \in DOMAIN recs :
                        \/ recs[j].distance < recs[i].distance
                        \/ j < i /\ recs[j].distance = recs[i].distance})]
  IN Take([p \in DOMAIN recs |-> recs[CHOOSE i \in DOMAIN recs : place[i] = p]],
          n_results)

----------------------------------------------------------------------------
(* Search.py *)

Digits == {"0", "1", "2", "3", "4", "5", "6", "7", "8", "9"}
IsDigit(c) == c \in Digits
IsSpace(c) == c = " "
IsLetter(c) ==
  \E i \in DOMAIN UpperLetters : c = UpperLetters[i] \/ c = LowerLetters[i]
\* \w
IsWord(c) == IsLetter(c) \/ IsDigit(c) \/ c = "_"
\* [A-Z-] under re.IGNORECASE
IsSuffixChar(c) == IsLetter(c) \/ c = "-"

\* the last position of the longest run of P-characters of q that starts at
\* k (k - 1 when q[k] is no P-character): a greedy \s+, \d+ or [A-Z-]*
RunEnd(q, k, P(_)) ==
  LET stop == {j \in k .. Len(q) : ~P(q[j])}
  IN IF stop = {} THEN Len(q) ELSE Min(stop) - 1

LocatorWords == {<<"a", "r", "t", "i", "c", "l", "e">>,
                 <<"s", "e", "c", "t", "i", "o", "n">>}

\* ARTICLE_REGEX matched at position i: \b(article|section)\s+(\d+[A-Z-]*)
\* under (?i); the value is group(2), Null when there is no match at i
ArticleMatchAt(q, i) ==
  LET wordEnd == i + 6
      spaceEnd == RunEnd(q, wordEnd + 1, IsSpace)
      digitEnd == RunEnd(q, spaceEnd + 1, IsDigit)
      suffixEnd == RunEnd(q, digitEnd + 1, IsSuffixChar)
  IN IF /\ wordEnd <= Len(q)
        /\ Lower(SubSeq(q, i, wordEnd)) \in LocatorWords
        /\ (i = 1 \/ ~IsWord(q[i - 1]))
        /\ spaceEnd > wordEnd
        /\ digitEnd > spaceEnd
     THEN SubSeq(q, spaceEnd + 1, suffixEnd)
     ELSE Null

\* ARTICLE_REGEX.search(query): the leftmost match; m.group(2).upper()
extract_article_id(q) ==
  LET starts == {i \in DOMAIN q : ArticleMatchAt(q, i) # Null}
  IN IF starts = {} THEN Null ELSE Upper(ArticleMatchAt(q, Min(starts)))

\* the elements of l at the positions of P, in order
AtPositions(l, P) ==
  LET keep == SortedIds(P) IN [k \in DOMAIN keep |-> l[keep[k]]]

\* lexical search: the owned sections whose text or summary contains the
\* lower-cased query
fulltext_search_sections(g, q, limit) ==
  LET lq == Lower(q)
      rows == OwnedRows(g)
      Hit(sec) ==
        \/ sec.p.text # Null /\ Contains(Lower(sec.p.text), lq)
        \/ sec.p.summary # Null /\ Contains(Lower(sec.p.summary), lq)
      hits == AtPositions(rows, {i \in DOMAIN rows : Hit(g.nodes[rows[i].s])})
  IN Take([i \in DOMAIN hits |-> hits[i].s], limit)

\* semantic search over the sections collection, filtered on the metadata
\* section_id when a locator was found
vector_search_sections(idx, article_id, limit) ==
  LET recs == IF Truthy(article_id)
              THEN AtPositions(idx.sections,
                     {i \in DOMAIN idx.sections :
                        idx.sections[i].section_id = article_id})
              ELSE idx.sections
      res == NearestFirst(recs, limit)
  IN [i \in DOMAIN res |-> res[i].neo4j_id]

\* section hits, then act hits, sorted by 1 - distance descending (stable)
smart_semantic_search(idx, limit) ==
  LET sec_res == NearestFirst(idx.sections, limit)
      act_res == NearestFirst(idx.acts, limit)
      merged ==
        [i \in DOMAIN sec_res |->
           [type |-> "section", id |-> sec_res[i].neo4j_id,
            distance |-> sec_res[i].distance]]
        \o [i \in DOMAIN act_res |->
              [type |-> "act", id |-> act_res[i].neo4j_id,
               distance |-> act_res[i].distance]]
  IN NearestFirst(merged, limit)

----------------------------------------------------------------------------
(* Graph_RAG_new.py *)

VEC_LIMIT == 50
LEX_LIMIT == 50
SEM_LIMIT == 50
EXPAND_LIMIT == 40
DEDUPE_CAP == 10
TITLE_LIMIT == 20
SUMMARY_CHARS == 800
TEXT_CHARS == 1500
CITED_CHARS == 400

\* (a or b) on values that may be null or empty
Or(a, b) == IF Truthy(a) THEN a ELSE b

\* _trim
Trim(text, max_chars) ==
  IF text = Null THEN Null
  ELSE LET t == Strip(text)
       IN IF Len(t) <= max_chars THEN t
          ELSE SubSeq(t, 1, max_chars)
                 \o <<" ", ".", ".", ".", "[", "T", "R", "U", "N", "C", "A",
                      "T", "E", "D", "]", ".", ".", ".">>

\* OPTIONAL MATCH (s)-[:type]->(n:label), collect(DISTINCT n)
Neighbours(g, s, type, label) ==
  SortedIds({e.dst : e \in {x \in g.edges :
               x.type = type /\ x.src = s /\ g.nodes[x.dst].label = label}})

\* the formatting without its first branch: the year is never appended
formatted_citation_NoYear(raw_citation, act_title, act_year) ==
  IF Truthy(raw_citation) /\ Truthy(act_title)
  THEN raw_citation \o <<" ", "o", "f", " ">> \o act_title
  ELSE raw_citation

\* lines 106-111
formatted_citation(raw_citation, act_title, act_year) ==
  IF Truthy(raw_citation) /\ Truthy(act_title) /\ Truthy(act_year)
  THEN raw_citation \o <<" ", "o", "f", " ">> \o act_title \o <<",", " ">>
         \o Str(act_year)
  ELSE IF Truthy(raw_citation) /\ Truthy(act_title)
  THEN raw_citation \o <<" ", "o", "f", " ">> \o act_title
  ELSE raw_citation

\* the evidence entry of one (act, section) row
Entry(g, row) ==
  LET act == g.nodes[row.a]
      sec == g.nodes[row.s]
      act_title == Or(act.p.title, Null)
      raw_citation == Or(sec.p.citation, Null)
      Names(l) == [i \in DOMAIN l |-> g.nodes[l[i]].p.name]
      Keys(l) == [i \in DOMAIN l |-> g.nodes[l[i]].id]
      cited == Neighbours(g, row.s, "CITES", "Section")
  IN [section_neo4j_id |-> row.s,
      citation |-> raw_citation,
      formatted_citation |-> formatted_citation(raw_citation, act_title, act.p.year),
      act_title |-> act_title,
      act_year |-> act.p.year,
      appears_in_acts |-> Keys(Neighbours(g, row.s, "APPEARS_IN_ACT", "Act")),
      section_heading |-> sec.p.heading,
      section_summary |-> Trim(sec.p.summary, SUMMARY_CHARS),
      section_text |-> Trim(sec.p.text, TEXT_CHARS),
      severity_score |-> sec.p.severity_score,
      roles |-> Names(Neighbours(g, row.s, "MENTIONS_ROLE", "Role")),
      obligations |-> Keys(Neighbours(g, row.s, "IMPOSES_OBLIGATION", "Obligation")),
      penalties |-> Keys(Neighbours(g, row.s, "PRESCRIBES_PENALTY", "Penalty")),
      cited_sections |->
        [i \in DOMAIN cited |->
           [citation |-> Or(g.nodes[cited[i]].p.citation, Null),
            heading |-> g.nodes[cited[i]].p.heading,
            text |-> Trim(g.nodes[cited[i]].p.text, CITED_CHARS)]]]

\* one entry per row of MATCH (a:Act)-[:HAS_SECTION]->(s:Section)
\* WHERE id(s) IN $sids
fetch_kg_context_for_sections(g, section_ids) ==
  IF section_ids = <<>> THEN <<>>
  ELSE LET rows == OwnedRows(g)
           sids == {section_ids[i] : i \in DOMAIN section_ids}
           hit == AtPositions(rows, {i \in DOMAIN rows : rows[i].s \in sids})
       IN [i \in DOMAIN hit |-> Entry(g, hit[i])]

\* steps 2-4: vector search, lexical search, fusion
PrimaryFusion(g, idx, q) ==
  rrf_fuse(vector_search_sections(idx, extract_article_id(q), VEC_LIMIT),
           fulltext_search_sections(g, q, LEX_LIMIT), K_RRF, TOP_K)

\* line 213: if not fused_section_ids and explicit_article_id
EntersFallback1_AnyLocator(fused_section_ids, explicit_article_id) ==
  Truthy(explicit_article_id)

EntersFallback1(fused_section_ids, explicit_article_id) ==
  fused_section_ids = <<>> /\ Truthy(explicit_article_id)

\* WHERE toUpper(s.section_id) = $sid
Fallback1Ids(g, explicit_article_id) ==
  LET rows == OwnedRows(g)
      hit == AtPositions(rows, {i \in DOMAIN rows :
               /\ g.nodes[rows[i].s].p.section_id # Null
               /\ Upper(g.nodes[rows[i].s].p.section_id) = explicit_article_id})
  IN [i \in DOMAIN hit |-> hit[i].s]

\* line 229: if not fused_section_ids
EntersFallback2(fused_section_ids) == fused_section_ids = <<>>

\* the characters of the model in code-point order
Alphabet ==
  <<" ", "#", "-", "0", "1", "2", "3", "4", "5", "6", "7", "8", "9", ":",
    "A", "C", "E", "I", "L", "N", "O", "R", "S", "T", "X", "_",
    "a", "c", "d", "e", "f", "g", "h", "i", "k", "l", "n", "o", "p", "r",
    "s", "t", "x", "y", "z", "|">>
CharCode(c) == CHOOSE i \in DOMAIN Alphabet : Alphabet[i] = c

\* string order of Cypher's ORDER BY ... ASC; null sorts last
StringBefore(a, b) ==
  IF a = Null THEN FALSE
  ELSE IF b = Null THEN TRUE
  ELSE \E i \in 1 .. Len(b) :
         /\ \A j \in 1 .. i - 1 : j <= Len(a) /\ a[j] = b[j]
         /\ i > Len(a) \/ CharCode(a[i]) < CharCode(b[i])

\* MATCH (a:Act)-[:HAS_SECTION]->(s:Section) WHERE id(a) IN $aids
\* RETURN id(s) ORDER BY s.sectionNo ASC LIMIT 40
ExpandActs(g, act_ids) ==
  LET all == OwnedRows(g)
      aids == {act_ids[i] : i \in DOMAIN act_ids}
      rows == AtPositions(all, {i \in DOMAIN all : all[i].a \in aids})
      No(i) == g.nodes[rows[i].s].p.sectionNo
      place == [i \in DOMAIN rows |->
                  1 + Cardinality({j \in DOMAIN rows :
                        \/ StringBefore(No(j), No(i))
                        \/ j < i /\ ~StringBefore(No(i), No(j))})]
      ordered == [p \in DOMAIN rows |-> rows[CHOOSE i \in DOMAIN rows : place[i] = p].s]
  IN Take(ordered, EXPAND_LIMIT)

\* list(dict.fromkeys(l)): the first occurrence of every element
Dedupe(l) ==
  AtPositions(l, {i \in DOMAIN l : \A j \in 1 .. i - 1 : l[j] # l[i]})

\* lines 230-250: sec_ids_from_sem
Fallback2Ids(g, idx) ==
  LET sem_results == smart_semantic_search(idx, SEM_LIMIT)
      OfType(t) ==
        LET hits == AtPositions(sem_results,
                      {i \in DOMAIN sem_results : sem_results[i].type = t})
        IN [i \in DOMAIN hits |-> hits[i].id]
      sec_ids_from_sem == OfType("section")
      act_ids == OfType("act")
  IN IF act_ids # <<>> THEN sec_ids_from_sem \o ExpandActs(g, act_ids)
     ELSE sec_ids_from_sem

\* line 258: if not fused_section_ids
EntersFallback3(fused_section_ids) == fused_section_ids = <<>>

\* WHERE toLower(a.title) CONTAINS toLower($q) ... LIMIT 20
Fallback3Ids(g, q) ==
  LET rows == OwnedRows(g)
      hit == AtPositions(rows, {i \in DOMAIN rows :
               /\ g.nodes[rows[i].a].p.title # Null
               /\ Contains(Lower(g.nodes[rows[i].a].p.title), Lower(q))})
  IN Take([i \in DOMAIN hit |-> hit[i].s], TITLE_LIMIT)

\* line 272: if not fused_section_ids: return the message
Bails_Never(fused_section_ids) == FALSE

Bails(fused_section_ids) == fused_section_ids = <<>>

Tiers == {"primary", "fallback1", "fallback2", "fallback3"}

\* Graph_RAG_new_tool, one step per tier

PrimarySearch ==
  /\ pc = "primary"
  /\ ids' = PrimaryFusion(store, index, query)
  /\ tierIds' = [tierIds EXCEPT !["primary"] = ids']
  /\ ran' = ran \cup {"primary"}
  /\ pc' = "fallback1"
  /\ UNCHANGED <<textVars, llmVars, manVars, kgVars, rrfVars, store, index, query, evidence, result, fmtVars, idxVars>>

Fallback1 ==
  /\ pc = "fallback1"
  /\ IF EntersFallback1(ids, extract_article_id(query))
     THEN /\ ids' = Fallback1Ids(store, extract_article_id(query))
          /\ tierIds' = [tierIds EXCEPT !["fallback1"] = ids']
          /\ ran' = ran \cup {"fallback1"}
     ELSE UNCHANGED <<ids, tierIds, ran>>
  /\ pc' = "fallback2"
  /\ UNCHANGED <<textVars, llmVars, manVars, kgVars, rrfVars, store, index, query, evidence, result, fmtVars, idxVars>>

Fallback2 ==
  /\ pc = "fallback2"
  /\ IF EntersFallback2(ids)
     THEN LET sec_ids_from_sem == Fallback2Ids(store, index)
          IN /\ ids' = IF sec_ids_from_sem # <<>>
                       THEN Take(Dedupe(sec_ids_from_sem), DEDUPE_CAP)
                       ELSE ids
             /\ tierIds' = [tierIds EXCEPT !["fallback2"] = ids']
             /\ ran' = ran \cup {"fallback2"}
     ELSE UNCHANGED <<ids, tierIds, ran>>
  /\ pc' = "fallback3"
  /\ UNCHANGED <<textVars, llmVars, manVars, kgVars, rrfVars, store, index, query, evidence, result, fmtVars, idxVars>>

Fallback3 ==
  /\ pc = "fallback3"
  /\ IF EntersFallback3(ids)
     THEN /\ ids' = Fallback3Ids(store, query)
          /\ tierIds' = [tierIds EXCEPT !["fallback3"] = ids']
          /\ ran' = ran \cup {"fallback3"}
     ELSE UNCHANGED <<ids, tierIds, ran>>
  /\ pc' = "final"
  /\ UNCHANGED <<textVars, llmVars, manVars, kgVars, rrfVars, store, index, query, evidence, result, fmtVars, idxVars>>

\* lines 272-276
Bail ==
  /\ pc = "final"
  /\ Bails(ids)
  /\ result' = "no_evidence"
  /\ pc' = "done"
  /\ UNCHANGED <<textVars, llmVars, manVars, kgVars, rrfVars, store, index, query, ids, tierIds, ran, evidence, fmtVars, idxVars>>

\* line 279
FetchContext ==
  /\ pc = "final"
  /\ ~Bails(ids)
  /\ evidence' = fetch_kg_context_for_sections(store, ids)
  /\ ran' = ran \cup {"fetch"}
  /\ pc' = "llm"
  /\ UNCHANGED <<textVars, llmVars, manVars, kgVars, rrfVars, store, index, query, ids, tierIds, result, fmtVars, idxVars>>

\* lines 281-300: the prompt holds json.dumps(kg_results), whatever it is
InvokeLLM ==
  /\ pc = "llm"
  /\ ran' = ran \cup {"llm"}
  /\ result' = "answer"
  /\ pc' = "done"
  /\ UNCHANGED <<textVars, llmVars, manVars, kgVars, rrfVars, store, index, query, ids, tierIds, evidence, fmtVars, idxVars>>

(* The runs of the tool *)

\* Section 7 of act A2 whose text names a section
RecT ==
  [Rec5 EXCEPT !.text = <<"s", "e", "c", "t", "i", "o", "n", " ", "7">>]

\* the record of Section 1 of act A1 filed under act A2: upserted after Rec1
\* it links the one Section node to a second Act
RecOtherAct ==
  [Rec1 EXCEPT !.act_id = A2, !.act_year = <<"1", "8", "6", "0">>]

RagRecords == {Rec1, RecT, RecOtherAct}

\* the act title the back-fill reads from the re-built enriched file
TocTitle == <<"T", "o", "c">>

\* graph stores: upserts of up to MaxStore records, with or without the title
\* back-fill of act A1
RagGraphs == {UpsertAll(EmptyGraph, f) : f \in SeqsUpTo(RagRecords, MaxStore)}
RagStores == RagGraphs \cup {update_act_title(g, A1, TocTitle) : g \in RagGraphs}

\* the ids the indexer writes records for
IndexedIds(g) ==
  LabelIdx(g, "Act") \cup {OwnedRows(g)[i].s : i \in DOMAIN OwnedRows(g)}

\* the index as built from graph g when at most the record of node `nearest`
\* is at distance 1 of the query and every other record at distance 2
IndexOf(g, nearest) ==
  LET dist == [i \in DOMAIN g.nodes |-> IF i = nearest THEN 1 ELSE 2]
  IN [sections |-> index_sections_into_chroma(g, dist),
      acts |-> index_acts_into_chroma(g, dist)]

RagQueries ==
  {<<"x">>, <<"z", "z">>, <<"t", "o">>,
   <<"S", "e", "c", "t", "i", "o", "n", " ", "7">>,
   <<"s", "e", "c", "t", "i", "o", "n", " ", "1">>}

\* The index lives in its own directory and is keyed by the internal ids of
\* the graph it was built from; the graph store of the run is any store
InitRAG ==
  /\ store \in RagStores
  /\ \E g \in RagGraphs : \E nearest \in IndexedIds(g) \cup {0} :
       index = IndexOf(g, nearest)
  /\ query \in RagQueries
  /\ pc = "primary"
  /\ ids = <<>>
  /\ tierIds = [t \in Tiers |-> <<>>]
  /\ ran = {}
  /\ evidence = <<>>
  /\ result = "none"
  /\ graph = EmptyGraph /\ hist = <<>> /\ KgIdle /\ RrfIdle /\ TextIdle /\ LlmIdle /\ ManIdle /\ FmtIdle /\ IdxIdle

NextRAG ==
  \/ PrimarySearch
  \/ Fallback1
  \/ Fallback2
  \/ Fallback3
  \/ Bail
  \/ FetchContext
  \/ InvokeLLM

SpecRAG == InitRAG /\ [][NextRAG]_vars

\* C3: a fallback tier runs only if every earlier tier that ran produced no
\* id: none runs when primary fusion returned an id, Fallback 1 runs only
\* with a locator, and no fallback runs after one that yielded ids
C3_FallbackOrder ==
  /\ \A t \in Tiers \ {"primary"} : t \in ran => tierIds["primary"] = <<>>
  /\ "fallback1" \in ran => extract_article_id(query) # Null
  /\ "fallback2" \in ran => tierIds["fallback1"] = <<>>
  /\ "fallback3" \in ran =>
       tierIds["fallback1"] = <<>> /\ tierIds["fallback2"] = <<>>

\* a run with a locator whose primary fusion returned ids has finished
C3_LocatorRunDone ==
  /\ pc = "done"
  /\ extract_article_id(query) # Null
  /\ tierIds["primary"] # <<>>
  /\ ran = {"primary", "fetch", "llm"}

\* C5: when primary fusion and the three fallbacks all yield no id, the run
\* ends with the no-evidence message, without evidence assembly or LLM call
C5_EmptyBails ==
  (pc \in {"llm", "done"} /\ \A t \in Tiers : tierIds[t] = <<>>)
    => /\ result = "no_evidence"
       /\ pc = "done"
       /\ "fetch" \notin ran /\ "llm" \notin ran
       /\ evidence = <<>>

\* a run with a locator went through every tier and bailed
C5_AllTiersEmpty ==
  /\ pc = "done"
  /\ ran = Tiers
  /\ \A t \in Tiers : tierIds[t] = <<>>
  /\ result = "no_evidence"
  /\ store # EmptyGraph

\* C6: whenever the LLM is invoked the evidence list is not empty
C6_LlmHasEvidence == "llm" \in ran => evidence # <<>>

----------------------------------------------------------------------------
(* Segmenter: 02_parse_structure.py.  A document is the list of the texts  *)
(* of its lines; line k is on page (k + 1) \div 2 at index (k - 1) % 2.     *)

\* characters str.strip() removes
Whitespace == {" ", "\n", "\t"}

\* not text.strip()
Blank(text) == \A i \in DOMAIN text : text[i] \in Whitespace

\* "\n".join(texts)
RECURSIVE JoinLines(_)
JoinLines(texts) ==
  IF texts = <<>> THEN <<>>
  ELSE IF Len(texts) = 1 THEN texts[1]
  ELSE texts[1] \o <<"\n">> \o JoinLines(Tail(texts))

SectionWord == <<"S", "e", "c", "t", "i", "o", "n">>
ChapterWord == <<"C", "H", "A", "P", "T", "E", "R">>
IsRoman(c) == c \in {"I", "V", "X", "L", "C"}

\* the end of \d+[A-Za-z]? matched at position k (k - 1 when no digit)
NumberEnd(t, k) ==
  LET digitEnd == RunEnd(t, k, IsDigit)
  IN IF digitEnd >= k /\ digitEnd < Len(t) /\ IsLetter(t[digitEnd + 1])
     THEN digitEnd + 1 ELSE digitEnd

\* return None, None
NoHeader == [section_num |-> Null, heading |-> Null]

\* ^Section\s+(\d+[A-Za-z]?)\.?\s*(.*)$
SectionPattern1(t) ==
  LET spaceEnd == RunEnd(t, 8, IsSpace)
      numEnd == NumberEnd(t, spaceEnd + 1)
      dotEnd == IF numEnd < Len(t) /\ t[numEnd + 1] = "." THEN numEnd + 1
                ELSE numEnd
      restAt == RunEnd(t, dotEnd + 1, IsSpace) + 1
  IN IF /\ Len(t) >= 7 /\ SubSeq(t, 1, 7) = SectionWord
        /\ spaceEnd >= 8
        /\ numEnd > spaceEnd
     THEN [section_num |-> SubSeq(t, spaceEnd + 1, numEnd),
           heading |-> Strip(SubSeq(t, restAt, Len(t)))]
     ELSE NoHeader

\* ^(\d+[A-Za-z]?)\.\s+(.*)$
SectionPattern2(t) ==
  LET numEnd == NumberEnd(t, 1)
      spaceEnd == RunEnd(t, numEnd + 2, IsSpace)
  IN IF /\ numEnd >= 1
        /\ numEnd < Len(t) /\ t[numEnd + 1] = "."
        /\ spaceEnd >= numEnd + 2
     THEN [section_num |-> SubSeq(t, 1, numEnd),
           heading |-> Strip(SubSeq(t, spaceEnd + 1, Len(t)))]
     ELSE NoHeader

\* the first pattern that matches wins
detect_section_header(text) ==
  IF SectionPattern1(text) # NoHeader THEN SectionPattern1(text)
  ELSE SectionPattern2(text)

\* ^CHAPTER\s+([IVXLC]+)\b
detect_chapter(text) ==
  LET spaceEnd == RunEnd(text, 8, IsSpace)
      romanEnd == RunEnd(text, spaceEnd + 1, IsRoman)
  IN IF /\ Len(text) >= 7 /\ SubSeq(text, 1, 7) = ChapterWord
        /\ spaceEnd >= 8
        /\ romanEnd > spaceEnd
        /\ (romanEnd = Len(text) \/ ~IsWord(text[romanEnd + 1]))
     THEN SubSeq(text, spaceEnd + 1, romanEnd)
     ELSE Null

\* line k of the lines file of a document
LineAt(d, k) ==
  [text |-> d[k], page |-> (k + 1) \div 2, line_index |-> (k - 1) % 2]

\* the locals of process_act before the scan, started as if a section "0"
\* were already open
SegStart_OpenSection ==
  [current_chapter |-> Null, current_section |-> <<"0">>,
   current_heading |-> <<>>, buffer |-> <<>>, pages |-> {}, raw_lines |-> <<>>]

\* the locals of process_act before the scan
SegStart ==
  [current_chapter |-> Null, current_section |-> Null,
   current_heading |-> <<>>, buffer |-> <<>>, pages |-> {}, raw_lines |-> <<>>]

\* the record flush_section writes for act A1
SectionRecord(s, text) ==
  [act_id |-> A1, act_year |-> <<"#", "1", "8", "5", "1">>,
   section_id |-> A1 \o <<"-", "s", "e", "c", "-">> \o s.current_section,
   unit_type |-> "section",
   hierarchy |-> [chapter |-> s.current_chapter, section |-> s.current_section],
   citation |-> <<"S", "e", "c", "t", "i", "o", "n", " ">> \o s.current_section,
   heading |-> IF s.current_heading = <<>> THEN Null ELSE s.current_heading,
   text |-> text,
   pages |-> SortedIds(s.pages),
   raw_lines |-> s.raw_lines]

\* flush_section without the test of the joined text
flush_section_NoBlankTest(s, o) ==
  LET text == JoinLines([i \in DOMAIN s.buffer |-> s.buffer[i].text])
  IN IF s.current_section = Null THEN [seg |-> s, out |-> o]
     ELSE [seg |-> [s EXCEPT !.buffer = <<>>, !.pages = {}, !.raw_lines = <<>>],
           out |-> Append(o, SectionRecord(s, text))]

\* flush_section(outfile): the locals and the output file after the call
flush_section(s, o) ==
  LET text == JoinLines([i \in DOMAIN s.buffer |-> s.buffer[i].text])
  IN IF s.current_section = Null THEN [seg |-> s, out |-> o]
     ELSE IF Blank(text) THEN [seg |-> s, out |-> o]
     ELSE [seg |-> [s EXCEPT !.buffer = <<>>, !.pages = {}, !.raw_lines = <<>>],
           out |-> Append(o, SectionRecord(s, text))]

\* one iteration of the loop of process_act over line rec
ScanStep(s, o, rec) ==
  LET chap == detect_chapter(rec.text)
      hdr == detect_section_header(rec.text)
      flushed == flush_section(s, o)
  IN IF chap # Null
     THEN [seg |-> [s EXCEPT !.current_chapter = chap], out |-> o]
     ELSE IF hdr.section_num # Null
     THEN [seg |-> [flushed.seg EXCEPT !.current_section = hdr.section_num,
                                       !.current_heading = hdr.heading,
                                       !.buffer = <<>>, !.pages = {},
                                       !.raw_lines = <<>>],
           out |-> flushed.out]
     ELSE IF s.current_section = Null THEN [seg |-> s, out |-> o]
     ELSE [seg |-> [s EXCEPT !.buffer = Append(@, rec),
                             !.pages = @ \cup {rec.page},
                             !.raw_lines = Append(@, rec)],
           out |-> o]

\* line texts: two section headers (one per pattern), a chapter line, a body
\* line, a line of white space, and "1." which no pattern matches
SegTexts ==
  {<<"1", ".", " ", "x">>,
   <<"S", "e", "c", "t", "i", "o", "n", " ", "2", "A", ".">>,
   <<"C", "H", "A", "P", "T", "E", "R", " ", "I">>,
   <<"x">>, <<" ">>, <<"1", ".">>}

InitSegment ==
  /\ doc \in SeqsUpTo(SegTexts, MaxDoc)
  /\ ln = 0
  /\ seg = SegStart
  /\ out = <<>>
  /\ phase = "scan"
  /\ annotated = <<>> /\ passes = 0
  /\ graph = EmptyGraph /\ hist = <<>> /\ runs = [p \in {} |-> 0]
  /\ base = EmptyGraph /\ file = <<>> /\ pos = 0 /\ restarts = 0
  /\ RrfIdle /\ RagIdle /\ LlmIdle /\ ManIdle /\ FmtIdle /\ IdxIdle

\* for line in f_in
ScanLine ==
  /\ phase = "scan"
  /\ ln < Len(doc)
  /\ LET after == ScanStep(seg, out, LineAt(doc, ln + 1))
     IN seg' = after.seg /\ out' = after.out
  /\ ln' = ln + 1
  /\ UNCHANGED <<doc, annotated, passes, kgVars, rrfVars, ragVars, llmVars, manVars, fmtVars, idxVars>>

\* the flush after the loop
EndOfInput ==
  /\ phase = "scan"
  /\ ln = Len(doc)
  /\ LET after == flush_section(seg, out)
     IN seg' = after.seg /\ out' = after.out
  /\ phase' = "done"
  /\ UNCHANGED <<doc, ln, annotated, passes, graph, hist, runs, base, file,
                 pos, restarts, rrfVars, ragVars, llmVars, manVars, fmtVars, idxVars>>

NextSegment == ScanLine \/ EndOfInput

SpecSegment == InitSegment /\ [][NextSegment]_vars

\* the record as the upsert reads it: the annotator adds the lists, empty
\* here, and leaves the other fields as they are; the page list is written
\* with one digit per page
AsKgRecord(r) ==
  [act_id |-> r.act_id, act_year |-> r.act_year, section_id |-> r.section_id,
   citation |-> r.citation, heading |-> r.heading, text |-> r.text,
   hierarchy |-> r.hierarchy,
   pages |-> [j \in DOMAIN r.pages |-> IdxStr(r.pages[j] + 1)[1]],
   processing_meta |-> [llm_used |-> Null],
   defined_terms |-> <<>>, roles |-> <<>>, obligations |-> <<>>,
   penalties |-> <<>>, citations |-> <<>>]

\* C17: no two records the segmenter emitted for a document carry the same
\* section_id, and the upsert of the emitted records has one Section node
\* per record
C17_SectionIdsUnique ==
  /\ \A i, j \in DOMAIN out : out[i].section_id = out[j].section_id => i = j
  /\ phase = "done" =>
       Cardinality(LabelIdx(UpsertAll(EmptyGraph,
                                      [i \in DOMAIN out |-> AsKgRecord(out[i])]),
                            "Section")) = Len(out)

\* a line the scan takes as a section header (the chapter test comes first)
IsHeaderLine(d, k) ==
  detect_chapter(d[k]) = Null /\ detect_section_header(d[k]).section_num # Null

\* a line the scan takes as neither
IsBodyLine(d, k) ==
  detect_chapter(d[k]) = Null /\ detect_section_header(d[k]).section_num = Null

Headers(d) == {k \in DOMAIN d : IsHeaderLine(d, k)}

\* the body lines between header k and the next header or the end of input
BodyOf(d, k) ==
  {j \in DOMAIN d :
     j > k /\ IsBodyLine(d, j) /\ ~\E h \in Headers(d) : k < h /\ h < j}

\* header k has a body line that is not blank
HasText(d, k) == \E j \in BodyOf(d, k) : \E i \in DOMAIN d[j] : d[j][i] # " "

\* the headers whose section is over after n lines (all of them at the end
\* of input) and has text, in line order
Emitted(d, n, atEnd) ==
  SortedIds({k \in Headers(d) :
               /\ HasText(d, k)
               /\ atEnd \/ \E h \in Headers(d) : k < h /\ h <= n})

\* the position in the document of a raw line
LineNo(r) == 2 * (r.page - 1) + r.line_index + 1

\* C18: at every point of the scan the records emitted are, in header order
\* and once each, the sections that a later header (or the end of input)
\* has ended and that have a non-blank body line; each carries the number
\* of its header and the body lines accumulated since that header
C18_FlushOnHeader ==
  LET want == Emitted(doc, ln, phase = "done")
  IN phase \in {"scan", "done"} =>
       /\ Len(out) = Len(want)
       /\ \A i \in DOMAIN out :
            /\ out[i].hierarchy.section
                 = detect_section_header(doc[want[i]]).section_num
            /\ {LineNo(out[i].raw_lines[j]) : j \in DOMAIN out[i].raw_lines}
                 = BodyOf(doc, want[i])
            /\ \A j \in DOMAIN out[i].raw_lines :
                 \A m \in DOMAIN out[i].raw_lines :
                   j < m => LineNo(out[i].raw_lines[j]) < LineNo(out[i].raw_lines[m])

\* the scan is over on a document with a header followed directly by a
\* header, a section that was emitted, and a header followed by the end
C18_HeaderThenHeader ==
  /\ phase = "done" /\ Len(out) = 1
  /\ \E k \in Headers(doc) : k + 1 \in Headers(doc)
  /\ Len(doc) \in Headers(doc)

\* C19: every raw line of an emitted record comes after the first section
\* header, the record's text and pages are those of its raw lines, and a
\* document without a section header yields no record
C19_PreambleDiscarded ==
  /\ \A i \in DOMAIN out :
       /\ \A j \in DOMAIN out[i].raw_lines :
            /\ \E h \in Headers(doc) : h < LineNo(out[i].raw_lines[j])
            /\ out[i].raw_lines[j] = LineAt(doc, LineNo(out[i].raw_lines[j]))
       /\ out[i].text
            = JoinLines([j \in DOMAIN out[i].raw_lines |-> out[i].raw_lines[j].text])
       /\ {out[i].pages[j] : j \in DOMAIN out[i].pages}
            = {out[i].raw_lines[j].page : j \in DOMAIN out[i].raw_lines}
  /\ Headers(doc) = {} => out = <<>>

\* the scan is over on a document that has text (and a chapter line) before
\* its first header and a record was emitted
C19_PreambleThenSection ==
  /\ phase = "done" /\ out # <<>>
  /\ doc[1] = <<"x">>
  /\ \E k \in DOMAIN doc : k > 1 /\ detect_chapter(doc[k]) # Null
                                 /\ \A h \in Headers(doc) : k < h

----------------------------------------------------------------------------
(* Rule-based annotator: 03_enrich_rule_based.py *)

\* \s
IsWs(c) == c \in Whitespace
IsUpper(c) == \E i \in DOMAIN UpperLetters : c = UpperLetters[i]
\* [A-Za-z\s]
IsLetterOrWs(c) == IsLetter(c) \/ IsWs(c)

\* \b before position i
WordStartAt(t, i) == i <= Len(t) /\ IsWord(t[i]) /\ (i = 1 \/ ~IsWord(t[i - 1]))
\* \b after position e
WordEndAt(t, e) == e >= 1 /\ IsWord(t[e]) /\ (e = Len(t) \/ ~IsWord(t[e + 1]))

\* the literal w at position i
LiteralAt(t, i, w) == i + Len(w) - 1 <= Len(t) /\ SubSeq(t, i, i + Len(w) - 1) = w
\* the literal w at position i under re.IGNORECASE
LiteralAtIgnoreCase(t, i, w) ==
  i + Len(w) - 1 <= Len(t) /\ Lower(SubSeq(t, i, i + Len(w) - 1)) = w

\* re.finditer: the non-overlapping matches from left to right, MatchEnd
\* giving the last position of the match that starts at i (0 when none)
FindIter(t, MatchEnd(_, _)) ==
  LET from[i \in 1 .. Len(t) + 1] ==
        IF i > Len(t) THEN <<>>
        ELSE IF MatchEnd(t, i) > 0
        THEN <<[start |-> i, end |-> MatchEnd(t, i)]>> \o from[MatchEnd(t, i) + 1]
        ELSE from[i + 1]
  IN from[1]

\* (?:\s*,\s*\d+[A-Za-z]*)* after position e: the last position matched
RECURSIVE CiteListEnd(_, _)
CiteListEnd(t, e) ==
  LET comma == RunEnd(t, e + 1, IsWs) + 1
      digitAt == RunEnd(t, comma + 1, IsWs) + 1
      digitEnd == RunEnd(t, digitAt, IsDigit)
  IN IF comma <= Len(t) /\ t[comma] = "," /\ digitEnd >= digitAt
     THEN CiteListEnd(t, RunEnd(t, digitEnd + 1, IsLetter))
     ELSE e

\* SECTION_CITE_RE: \bsections?\s+\d+[A-Za-z]*(?:\s*,\s*\d+[A-Za-z]*)*
SectionCiteEnd(t, i) ==
  LET word == <<"s", "e", "c", "t", "i", "o", "n">>
      wordEnd == IF i + 7 <= Len(t) /\ t[i + 7] = "s" THEN i + 7 ELSE i + 6
      spaceEnd == RunEnd(t, wordEnd + 1, IsWs)
      digitEnd == RunEnd(t, spaceEnd + 1, IsDigit)
  IN IF /\ WordStartAt(t, i) /\ LiteralAt(t, i, word)
        /\ spaceEnd > wordEnd /\ digitEnd > spaceEnd
     THEN CiteListEnd(t, RunEnd(t, digitEnd + 1, IsLetter))
     ELSE 0

\* ACT_CITE_RE: \b([A-Z][A-Za-z\s]+ Act,\s*\d{4})\b
ActCiteEnd(t, i) ==
  LET runEnd == RunEnd(t, i + 1, IsLetterOrWs)
      yearAt == RunEnd(t, runEnd + 2, IsWs) + 1
  IN IF /\ WordStartAt(t, i) /\ IsUpper(t[i])
        /\ runEnd - 4 >= i + 1
        /\ LiteralAt(t, runEnd - 3, <<" ", "A", "c", "t", ",">>)
        /\ yearAt + 3 <= Len(t)
        /\ \A k \in yearAt .. yearAt + 3 : IsDigit(t[k])
        /\ WordEndAt(t, yearAt + 3)
     THEN yearAt + 3
     ELSE 0

\* the closing quote of "([^"]+)" opened at position i (0 when none)
QuoteEnd(t, i) ==
  LET q == RunEnd(t, i + 1, LAMBDA c : c # "\"") + 1
  IN IF i <= Len(t) /\ t[i] = "\"" /\ q <= Len(t) /\ q >= i + 2 THEN q ELSE 0

\* the (means|includes) of DEFINITION_RE at position k: its last position
VerbEnd(t, k) ==
  IF LiteralAtIgnoreCase(t, k, <<"m", "e", "a", "n", "s">>) THEN k + 4
  ELSE IF LiteralAtIgnoreCase(t, k, <<"i", "n", "c", "l", "u", "d", "e", "s">>)
  THEN k + 7
  ELSE 0

\* DEFINITION_RE: "([^"]+)"\s+(means|includes)\s+ under re.IGNORECASE
DefinitionEnd(t, i) ==
  LET q == QuoteEnd(t, i)
      spaceEnd == RunEnd(t, q + 1, IsWs)
      verbEnd == VerbEnd(t, spaceEnd + 1)
      tailEnd == RunEnd(t, verbEnd + 1, IsWs)
  IN IF q > 0 /\ spaceEnd > q /\ verbEnd > 0 /\ tailEnd > verbEnd
     THEN tailEnd ELSE 0

AmendmentWords ==
  {<<"r", "e", "p", "e", "a", "l", "e", "d">>,
   <<"s", "u", "b", "s", "t", "i", "t", "u", "t", "e", "d">>,
   <<"o", "m", "i", "t", "t", "e", "d">>}

\* AMENDMENT_RE: is hereby (repealed|substituted|omitted) under re.IGNORECASE
AmendmentEnd(t, i) ==
  LET lead == <<"i", "s", " ", "h", "e", "r", "e", "b", "y", " ">>
      ends == {i + 9 + Len(w) : w \in {v \in AmendmentWords :
                 LiteralAtIgnoreCase(t, i, lead \o v)}}
  IN IF ends = {} THEN 0 ELSE Min(ends)

\* NOTWITH_RE: notwithstanding anything contained in, under re.IGNORECASE
NotwithEnd(t, i) ==
  LET phrase == <<"n", "o", "t", "w", "i", "t", "h", "s", "t", "a", "n", "d",
                  "i", "n", "g", " ", "a", "n", "y", "t", "h", "i", "n", "g",
                  " ", "c", "o", "n", "t", "a", "i", "n", "e", "d", " ",
                  "i", "n">>
  IN IF LiteralAtIgnoreCase(t, i, phrase) THEN i + Len(phrase) - 1 ELSE 0

\* the matched texts of a list of matches
Groups(t, ms) == [k \in DOMAIN ms |-> SubSeq(t, ms[k].start, ms[k].end)]

\* sec.get(key, [])
GetOrEmptyList(x) == IF x = Null THEN <<>> ELSE x

\* enrich(sec)
enrich(sec) ==
  LET text == sec.text
      sectionCites == Groups(text, FindIter(text, SectionCiteEnd))
      actCites == Groups(text, FindIter(text, ActCiteEnd))
      citations ==
        [k \in DOMAIN sectionCites |->
           [kind |-> "section", raw |-> sectionCites[k], title |-> Null]]
        \o [k \in DOMAIN actCites |->
              [kind |-> "act", raw |-> actCites[k], title |-> actCites[k]]]
      defs == FindIter(text, DefinitionEnd)
      defined_terms ==
        [k \in DOMAIN defs |->
           [term |-> SubSeq(text, defs[k].start + 1,
                            QuoteEnd(text, defs[k].start) - 1),
            definition_span |-> SubSeq(text, defs[k].start, defs[k].end)]]
      amends == FindIter(text, AmendmentEnd)
      amendments ==
        [k \in DOMAIN amends |->
           [type |-> Lower(SubSeq(text, amends[k].start + 10, amends[k].end)),
            raw |-> SubSeq(text, amends[k].start, amends[k].end),
            target_text |-> Null]]
      precedence_clauses ==
        [k \in DOMAIN FindIter(text, NotwithEnd) |->
           [kind |-> "notwithstanding",
            raw |-> Groups(text, FindIter(text, NotwithEnd))[k]]]
      flags0 == GetOrEmptyList(sec.processing_meta.rule_based_flags)
      flags1 == IF citations # <<>> THEN Append(flags0, "has_citations")
                ELSE flags0
      flags2 == IF amendments # <<>> THEN Append(flags1, "has_amendments")
                ELSE flags1
  IN [sec EXCEPT !.citations = citations,
                 !.defined_terms = defined_terms,
                 !.amendments = amendments,
                 !.precedence_clauses = precedence_clauses,
                 !.roles = GetOrEmptyList(sec.roles),
                 !.obligations = GetOrEmptyList(sec.obligations),
                 !.powers = GetOrEmptyList(sec.powers),
                 !.penalties = GetOrEmptyList(sec.penalties),
                 !.rights = GetOrEmptyList(sec.rights),
                 !.processing_meta = [rule_based_flags |-> flags2]]

\* a record of the sections file: none of the annotator's keys is present
Unannotated(text) ==
  [section_id |-> SecId(A1, <<"1">>), text |-> text,
   citations |-> Null, defined_terms |-> Null, amendments |-> Null,
   precedence_clauses |-> Null, roles |-> Null, obligations |-> Null,
   powers |-> Null, penalties |-> Null, rights |-> Null,
   processing_meta |-> [rule_based_flags |-> Null]]

\* pieces of section text: a section citation, an act citation, a
\* definition, an amendment marker, a precedence clause, a plain line
Fragments ==
  {<<"s", "e", "e", " ", "s", "e", "c", "t", "i", "o", "n", "s", " ", "5",
   ",", " ", "6", "A", " ">>,
   <<"T", "h", "e", " ", "T", "a", "x", " ", "A", "c", "t", ",", " ", "1",
   "8", "5", "1", " ">>,
   <<"\"", "t", "x", "\"", " ", "M", "e", "a", "n", "s", " ", "x", " ">>,
   <<"i", "s", " ", "h", "e", "r", "e", "b", "y", " ", "R", "e", "p", "e",
   "a", "l", "e", "d", " ">>,
   <<"n", "o", "t", "w", "i", "t", "h", "s", "t", "a", "n", "d", "i", "n",
   "g", " ", "a", "n", "y", "t", "h", "i", "n", "g", " ", "c", "o", "n",
   "t", "a", "i", "n", "e", "d", " ", "i", "n", " ">>,
   <<"x", "\n">>}

RECURSIVE Concat(_)
Concat(parts) == IF parts = <<>> THEN <<>> ELSE Head(parts) \o Concat(Tail(parts))

InitAnnotate ==
  /\ \E parts \in SeqsUpTo(Fragments, MaxParts) :
       annotated = Unannotated(Concat(parts))
  /\ passes = 0
  /\ phase = "annotate"
  /\ doc = <<>> /\ ln = 0 /\ seg = <<>> /\ out = <<>>
  /\ graph = EmptyGraph /\ hist = <<>> /\ runs = [p \in {} |-> 0]
  /\ base = EmptyGraph /\ file = <<>> /\ pos = 0 /\ restarts = 0
  /\ RrfIdle /\ RagIdle /\ LlmIdle /\ ManIdle /\ FmtIdle /\ IdxIdle

\* sec = enrich(sec)
Annotate ==
  /\ phase = "annotate"
  /\ passes < MaxPasses
  /\ annotated' = enrich(annotated)
  /\ passes' = passes + 1
  /\ UNCHANGED <<doc, ln, seg, out, kgVars, rrfVars, ragVars, llmVars, manVars, fmtVars, idxVars>>

NextAnnotate == Annotate

SpecAnnotate == InitAnnotate /\ [][NextAnnotate]_vars

\* C20: enrich applied to a record it has already been applied to returns
\* that record: no list and no flag gains an entry
C20_EnrichIdempotent ==
  [][passes >= 1 => annotated' = annotated]_vars

----------------------------------------------------------------------------
(* LLM batcher: 04_enrich_llm_hybrid.py.  A list field of a record or of   *)
(* an LLM result is a sequence; an absent or null list is the empty        *)
(* sequence, as `x.get(key) or []` reads it.  An element of obligations,   *)
(* powers, penalties or rights is a JSON object (isdict) or some other     *)
(* JSON value; a role is a string or a JSON number.                        *)

\* the model name, as the value of processing_meta.llm_model
MODEL == <<"deepseek/deepseek-chat">>

BATCH_SIZE == 5
MAX_SENTENCES == 8

\* str.strip(): white space of every kind
RECURSIVE StripWs(_)
StripWs(s) ==
  IF s # <<>> /\ Head(s) \in Whitespace THEN StripWs(Tail(s))
  ELSE IF s # <<>> /\ s[Len(s)] \in Whitespace
       THEN StripWs(SubSeq(s, 1, Len(s) - 1))
  ELSE s

\* sorted(S) for a set of strings
RECURSIVE SortedStrings(_)
SortedStrings(S) ==
  IF S = {} THEN <<>>
  ELSE LET first == CHOOSE a \in S : \A b \in S \ {a} : StringBefore(a, b)
       IN <<first>> \o SortedStrings(S \ {first})

\* [v for v in new_vals if isinstance(v, dict)]
OnlyDicts(new_vals) == SelectSeq(new_vals, LAMBDA v : v.isdict)

\* the keys of an LLM result
LlmResult(roles, obligations, powers, penalties, rights) ==
  [roles |-> roles, obligations |-> obligations, powers |-> powers,
   penalties |-> penalties, rights |-> rights]

\* merge_semantics(sec, llm_result)
merge_semantics(sec, res) ==
  LET existing_roles ==
        {sec.roles[k] : k \in DOMAIN sec.roles}
          \cup {StripWs(res.roles[k]) :
                  k \in {j \in DOMAIN res.roles : IsStr(res.roles[j])}}
      used == \/ res.roles # <<>> \/ res.obligations # <<>>
              \/ res.powers # <<>> \/ res.penalties # <<>>
              \/ res.rights # <<>>
  IN [sec EXCEPT
        !.roles = SortedStrings(existing_roles),
        !.obligations = sec.obligations \o OnlyDicts(res.obligations),
        !.powers = sec.powers \o OnlyDicts(res.powers),
        !.penalties = sec.penalties \o OnlyDicts(res.penalties),
        !.rights = sec.rights \o OnlyDicts(res.rights),
        !.processing_meta =
           [@ EXCEPT !.llm_used = IF used THEN <<"true">> ELSE <<"false">>,
                     !.llm_model = IF used THEN MODEL ELSE Null]]

\* a record of the enriched file as the batcher reads it: llm_used and
\* llm_model are Null while the keys are absent
LlmSec(text, roles, obligations) ==
  [text |-> text, roles |-> roles, obligations |-> obligations,
   powers |-> <<>>, penalties |-> <<>>, rights |-> <<>>,
   processing_meta |-> [llm_used |-> Null, llm_model |-> Null]]

\* role lists an LLM returns: none, a padded role, one role in two
\* spellings, a number in place of a string
LlmRoleLists ==
  {<<>>, <<<<" ", "O", "f", " ">>>>, <<<<"O", "f">>, <<"o", "f">>>>,
   <<<<"#", "5">>>>}

\* object lists an LLM returns: none, one object, a string in place of it
LlmObjectLists ==
  {<<>>, <<Ob(<<"O", "f">>, <<"g", "o">>)>>, <<NotDictOb>>}

\* sections with and without earlier extractions
MergeSections ==
  {LlmSec(<<"x">>, r, o) :
     r \in {<<>>, <<<<"o", "f">>>>},
     o \in {<<>>, <<Ob(<<"c">>, <<"g", "o">>)>>}}

MergeResults ==
  {LlmResult(r, o, <<>>, p, <<>>) :
     r \in LlmRoleLists, o \in LlmObjectLists,
     p \in {<<>>, <<Ob(<<"c">>, <<"x">>)>>}}

InitMerge ==
  /\ msec \in MergeSections
  /\ llm_result \in MergeResults
  /\ merges = 0
  /\ phase = "merge"
  /\ sections = <<>> /\ llm_inputs = <<>> /\ results_by_index = <<>>
  /\ calls = <<>> /\ kg_file = <<>>
  /\ graph = EmptyGraph /\ hist = <<>> /\ runs = [p \in {} |-> 0]
  /\ base = EmptyGraph /\ file = <<>> /\ pos = 0 /\ restarts = 0
  /\ RrfIdle /\ RagIdle /\ TextIdle /\ ManIdle /\ FmtIdle /\ IdxIdle

\* sec = merge_semantics(sec, results_by_index[idx])
Merge ==
  /\ phase = "merge"
  /\ merges < MaxMerges
  /\ msec' = merge_semantics(msec, llm_result)
  /\ merges' = merges + 1
  /\ UNCHANGED <<sections, llm_inputs, results_by_index, calls, kg_file,
                 llm_result>>
  /\ UNCHANGED <<kgVars, rrfVars, ragVars, textVars, manVars, fmtVars, idxVars>>

NextMerge == Merge

SpecMerge == InitMerge /\ [][NextMerge]_vars

\* the five extraction lists of a section
Extracted(sec) ==
  <<sec.roles, sec.obligations, sec.powers, sec.penalties, sec.rights>>

\* C24: merging the same LLM result into a section a second time leaves
\* roles, obligations, powers, penalties and rights as the first merge left
\* them
C24_MergeIdempotent ==
  [][merges >= 1 => Extracted(msec') = Extracted(msec)]_vars

\* strip() and case folding of a role
FoldRole(r) == Lower(StripWs(r))

\* C25: after merge_semantics no two entries of sec.roles are equal after
\* trimming white space and folding case
C25_RolesCaseNormalized ==
  merges >= 1 =>
    \A j, k \in DOMAIN msec.roles :
      j # k => FoldRole(msec.roles[j]) # FoldRole(msec.roles[k])

\* C26: after merge_semantics llm_used is true exactly when one of the five
\* lists of the merged section is non-empty, and llm_model is the model
\* name when llm_used is true and null otherwise
C26_LlmUsedIffExtracted ==
  merges >= 1 =>
    /\ msec.processing_meta.llm_used = <<"true">>
         <=> \E k \in 1 .. 5 : Extracted(msec)[k] # <<>>
    /\ msec.processing_meta.llm_used \in {<<"true">>, <<"false">>}
    /\ msec.processing_meta.llm_model =
         IF msec.processing_meta.llm_used = <<"true">> THEN MODEL ELSE Null

----------------------------------------------------------------------------
(* LLM batcher: candidate sentences, batched calls, merge and write.  The  *)
(* response to a call is an input of the model: the call raising, no text, *)
(* text that is not JSON, one JSON value that is not an array, or an array. *)

SentenceEnds == {".", "?", "!"}

\* the match of SENTENCE_SPLIT_RE that starts at i: white space after a
\* sentence end, taken greedily; 0 when there is none
SplitEnd(t, i) ==
  IF i > 1 /\ i <= Len(t) /\ t[i] \in Whitespace /\ t[i - 1] \in SentenceEnds
  THEN CHOOSE e \in i .. Len(t) :
         /\ \A j \in i .. e : t[j] \in Whitespace
         /\ e = Len(t) \/ t[e + 1] \notin Whitespace
  ELSE 0

\* SENTENCE_SPLIT_RE.split(text)
RECURSIVE SplitSentences(_)
SplitSentences(t) ==
  LET starts == {i \in DOMAIN t : SplitEnd(t, i) > 0}
  IN IF starts = {} THEN <<t>>
     ELSE LET i == Min(starts)
          IN <<SubSeq(t, 1, i - 1)>>
               \o SplitSentences(SubSeq(t, SplitEnd(t, i) + 1, Len(t)))

KEYWORDS ==
  <<<<" ", "s", "h", "a", "l", "l", " ">>,
    <<" ", "s", "h", "a", "l", "l", " ", "b", "e", " ", "b", "o", "u", "n",
      "d", " ">>,
    <<" ", "m", "a", "y", " ">>,
    <<" ", "p", "u", "n", "i", "s", "h", "a", "b", "l", "e", " ">>,
    <<" ", "l", "i", "a", "b", "l", "e", " ">>,
    <<" ", "o", "f", "f", "e", "n", "c", "e", " ">>,
    <<" ", "o", "f", "f", "e", "n", "s", "e", " ">>>>

\* the loop of find_candidate_sentences over the sentences left
RECURSIVE Candidates(_, _, _)
Candidates(sentences, cand, max_sentences) ==
  IF sentences = <<>> THEN cand
  ELSE LET s == Head(sentences)
           ls == <<" ">> \o Lower(s) \o <<" ">>
           hit == \E k \in DOMAIN KEYWORDS : Contains(ls, KEYWORDS[k])
           cand1 == IF hit /\ StripWs(s) # <<>> THEN Append(cand, StripWs(s))
                    ELSE cand
       IN IF Len(cand1) >= max_sentences THEN cand1
          ELSE Candidates(Tail(sentences), cand1, max_sentences)

\* find_candidate_sentences(text)
find_candidate_sentences(text) ==
  Candidates(SplitSentences(text), <<>>, MAX_SENTENCES)

\* one element of a parsed response
Item(idx, res) ==
  [isdict |-> TRUE, has_index |-> TRUE, section_index |-> idx,
   roles |-> res.roles, obligations |-> res.obligations,
   powers |-> res.powers, penalties |-> res.penalties, rights |-> res.rights]

\* an object with no section_index (or section_index null)
NoIndexItem(res) == [Item(0, res) EXCEPT !.has_index = FALSE]

\* an element that is not a JSON object
NonObjectItem ==
  [Item(0, LlmResult(<<>>, <<>>, <<>>, <<>>, <<>>)) EXCEPT
     !.isdict = FALSE, !.has_index = FALSE]

Response(kind, items) == [kind |-> kind, items |-> items]

\* a mapping section_index -> result with one more key (a key already
\* present is overwritten)
Put(map, idx, res) ==
  [j \in DOMAIN map \cup {idx} |-> IF j = idx THEN res ELSE map[j]]

\* dict.update
Update(map, more) ==
  [j \in DOMAIN map \cup DOMAIN more |->
     IF j \in DOMAIN more THEN more[j] ELSE map[j]]

\* the loop of call_llm_batch over the parsed items
RECURSIVE CollectItems(_, _)
CollectItems(items, acc) ==
  IF items = <<>> THEN acc
  ELSE LET item == Head(items)
       IN IF ~item.isdict \/ ~item.has_index
          THEN CollectItems(Tail(items), acc)
          ELSE CollectItems(Tail(items),
                 Put(acc, item.section_index,
                     LlmResult(item.roles, item.obligations, item.powers,
                               item.penalties, item.rights)))

\* call_llm_batch(batch_inputs), given the response of the model
call_llm_batch(batch_inputs, response) ==
  IF batch_inputs = <<>> THEN <<>>
  ELSE IF response.kind \in {"error", "empty", "text"} THEN <<>>
  ELSE CollectItems(response.items, <<>>)

\* lines 249-258 of process_act: the LLM inputs of the loaded sections
BuildInputs(secs) ==
  LET idxs == SortedIds({k \in DOMAIN secs :
                           find_candidate_sentences(secs[k].text) # <<>>})
  IN [j \in DOMAIN idxs |->
        [section_index |-> idxs[j] - 1,
         sentences |-> find_candidate_sentences(secs[idxs[j]].text)]]

\* lines 254-258: sections without candidates are marked unused
MarkUnused(secs) ==
  [k \in DOMAIN secs |->
     IF find_candidate_sentences(secs[k].text) # <<>> THEN secs[k]
     ELSE [secs[k] EXCEPT !.processing_meta =
             [@ EXCEPT !.llm_used = <<"false">>, !.llm_model = Null]]]

\* lines 268-271: results merged by index
MergeBack(secs, results) ==
  [k \in DOMAIN secs |->
     IF k - 1 \in DOMAIN results THEN merge_semantics(secs[k], results[k - 1])
     ELSE secs[k]]

\* llm_inputs[i : i + BATCH_SIZE]
Slice(l, i, n) == SubSeq(l, i + 1, IF i + n < Len(l) THEN i + n ELSE Len(l))

CandidateText == <<"x", " ", "m", "a", "y", " ", "y", ".">>
PlainText == <<"m", "a", "y", ".">>

LlmTexts == {CandidateText, PlainText}

\* what an LLM extracts from a section: a role and an obligation, or nothing
Payloads ==
  {LlmResult(<<<<" ", "O", "f", " ">>>>, <<Ob(<<"O", "f">>, <<"g", "o">>)>>,
             <<>>, <<>>, <<>>),
   LlmResult(<<>>, <<>>, <<>>, <<>>, <<>>)}

FullPayload ==
  LlmResult(<<<<" ", "O", "f", " ">>>>, <<Ob(<<"O", "f">>, <<"g", "o">>)>>,
            <<>>, <<>>, <<>>)

\* the responses of the model to a batch of an act with n sections
Responses(batch, n) ==
  {Response(k, <<>>) : k \in {"error", "empty", "text"}}
  \cup {Response("array",
                 [k \in DOMAIN batch |-> Item(batch[k].section_index, p)]) :
          p \in Payloads}
  \cup {Response("value", <<Item(batch[1].section_index, FullPayload)>>),
        Response("value", <<NonObjectItem>>),
        Response("array",
                 <<NonObjectItem, Item(batch[1].section_index, FullPayload)>>),
        Response("array", <<NoIndexItem(FullPayload),
                            Item(batch[1].section_index, FullPayload)>>)}
  \cup {Response("array", <<Item(j, FullPayload)>>) : j \in 0 .. n}

InitLLM ==
  /\ file \in SeqsUpTo({LlmSec(t, <<>>, <<>>) : t \in LlmTexts}, MaxSecs)
  /\ phase = "llm_load"
  /\ sections = <<>> /\ llm_inputs = <<>> /\ results_by_index = <<>>
  /\ calls = <<>> /\ kg_file = <<>>
  /\ msec = <<>> /\ llm_result = <<>> /\ merges = 0
  /\ graph = EmptyGraph /\ hist = <<>> /\ runs = [p \in {} |-> 0]
  /\ base = EmptyGraph /\ pos = 0 /\ restarts = 0
  /\ RrfIdle /\ RagIdle /\ TextIdle /\ ManIdle /\ FmtIdle /\ IdxIdle

\* process_act entered while the kg_ready file exists and is not empty
\* (lines 238-240): nothing is read, called or written
SkipExisting ==
  /\ phase = "llm_load"
  /\ kg_file # <<>>
  /\ phase' = "llm_done"
  /\ UNCHANGED <<llmVars, graph, hist, runs, base, file, pos, restarts>>
  /\ UNCHANGED <<rrfVars, ragVars, textVars, manVars, fmtVars, idxVars>>

\* process_act that loads and processes whether or not the output exists
LoadSections_IgnoreOutput ==
  /\ phase = "llm_load"
  /\ sections' = MarkUnused(file)
  /\ llm_inputs' = BuildInputs(file)
  /\ phase' = "llm_calls"
  /\ UNCHANGED <<results_by_index, calls, kg_file, msec, llm_result, merges>>
  /\ UNCHANGED <<graph, hist, runs, base, file, pos, restarts>>
  /\ UNCHANGED <<rrfVars, ragVars, textVars, manVars, fmtVars, idxVars>>

\* process_act, lines 238-258: the kg_ready file is absent or empty; load the
\* sections and build the LLM inputs
LoadSections ==
  /\ phase = "llm_load"
  /\ kg_file = <<>>
  /\ sections' = MarkUnused(file)
  /\ llm_inputs' = BuildInputs(file)
  /\ phase' = "llm_calls"
  /\ UNCHANGED <<results_by_index, calls, kg_file, msec, llm_result, merges>>
  /\ UNCHANGED <<graph, hist, runs, base, file, pos, restarts>>
  /\ UNCHANGED <<rrfVars, ragVars, textVars, manVars, fmtVars, idxVars>>

\* the batch the loop of lines 262-265 sends next
NextBatch == Slice(llm_inputs, BATCH_SIZE * Len(calls), BATCH_SIZE)

\* one iteration of the loop of lines 262-265: the call stops at the first
\* failed batch
CallBatch_StopOnFailure ==
  /\ phase = "llm_calls"
  /\ BATCH_SIZE * Len(calls) < Len(llm_inputs)
  /\ \A k \in DOMAIN calls : calls[k].result # <<>>
  /\ \E response \in Responses(NextBatch, Len(sections)) :
       LET batch_result == call_llm_batch(NextBatch, response)
       IN /\ calls' = Append(calls, [batch |-> NextBatch,
                                     response |-> response,
                                     result |-> batch_result])
          /\ results_by_index' = Update(results_by_index, batch_result)
  /\ UNCHANGED <<sections, llm_inputs, kg_file, msec, llm_result, merges>>
  /\ UNCHANGED <<kgVars, rrfVars, ragVars, textVars, manVars, fmtVars, idxVars>>

\* one iteration of the loop of lines 262-265
CallBatch ==
  /\ phase = "llm_calls"
  /\ BATCH_SIZE * Len(calls) < Len(llm_inputs)
  /\ \E response \in Responses(NextBatch, Len(sections)) :
       LET batch_result == call_llm_batch(NextBatch, response)
       IN /\ calls' = Append(calls, [batch |-> NextBatch,
                                     response |-> response,
                                     result |-> batch_result])
          /\ results_by_index' = Update(results_by_index, batch_result)
  /\ UNCHANGED <<sections, llm_inputs, kg_file, msec, llm_result, merges>>
  /\ UNCHANGED <<kgVars, rrfVars, ragVars, textVars, manVars, fmtVars, idxVars>>

\* lines 267-278: merge the results and write the kg_ready file
MergeAndWrite ==
  /\ phase = "llm_calls"
  /\ BATCH_SIZE * Len(calls) >= Len(llm_inputs)
  /\ sections' = MergeBack(sections, results_by_index)
  /\ kg_file' = MergeBack(sections, results_by_index)
  /\ phase' = "llm_done"
  /\ UNCHANGED <<llm_inputs, results_by_index, calls, msec, llm_result,
                 merges>>
  /\ UNCHANGED <<graph, hist, runs, base, file, pos, restarts>>
  /\ UNCHANGED <<rrfVars, ragVars, textVars, manVars, fmtVars, idxVars>>

\* the batcher is started again for the act: process_act begins with new
\* locals, the files on disk are as the earlier run left them
RunAgain ==
  /\ phase = "llm_done"
  /\ restarts < MaxRestarts
  /\ restarts' = restarts + 1
  /\ phase' = "llm_load"
  /\ sections' = <<>> /\ llm_inputs' = <<>> /\ results_by_index' = <<>>
  /\ calls' = <<>>
  /\ UNCHANGED <<kg_file, msec, llm_result, merges>>
  /\ UNCHANGED <<graph, hist, runs, base, file, pos>>
  /\ UNCHANGED <<rrfVars, ragVars, textVars, manVars, fmtVars, idxVars>>

NextLLM ==
  LoadSections \/ SkipExisting \/ CallBatch \/ MergeAndWrite \/ RunAgain

SpecLLM == InitLLM /\ [][NextLLM]_vars

\* a well-formed response: a JSON array with exactly one object per section
\* of the batch, each with the section_index of its section
WellFormed(response, batch) ==
  /\ response.kind = "array"
  /\ Len(response.items) = Len(batch)
  /\ \A k \in DOMAIN response.items :
       response.items[k].isdict /\ response.items[k].has_index
  /\ \A k \in DOMAIN batch :
       \E j \in DOMAIN response.items :
         response.items[j].section_index = batch[k].section_index

\* C21: a call whose response is anything but a well-formed array returns
\* the empty mapping, so no section of that batch receives a result
C21_MalformedBatchEmpty ==
  \A k \in DOMAIN calls :
    ~WellFormed(calls[k].response, calls[k].batch)
      => DOMAIN calls[k].result = {}

\* the section indices sent in call k
SentIn(k) == {calls[k].batch[j].section_index : j \in DOMAIN calls[k].batch}

\* number of batches of n inputs
BatchCount(n) == (n + BATCH_SIZE - 1) \div BATCH_SIZE

C23_NoCandidatesNoLlm ==
  \A k \in DOMAIN sections :
    find_candidate_sentences(file[k].text) = <<>> =>
      /\ \A c \in DOMAIN calls : k - 1 \notin SentIn(c)
      /\ phase = "llm_done" =>
           /\ kg_file[k].processing_meta.llm_used = <<"false">>
           /\ kg_file[k].processing_meta.llm_model = Null

----------------------------------------------------------------------------
(* Manifest loops: main() of 03_enrich_rule_based.py, 04_enrich_llm_hybrid *)
(* .py and 05_stream_to_kg.py, add_cites_edges of 06_enrich_graph.py.  A   *)
(* manifest row carries the act and the state of its files on disk:        *)
(* "absent", "empty" (size 0) or "full".                                   *)

Stages == {"annotator", "llm_batcher", "graph_upsert", "citation_pass"}

FileStates == {"absent", "empty", "full"}

\* main() of the LLM batcher skips the rows of earlier years
FIRST_YEAR == 2010

ManifestRow(act_id, year, sections_file, enriched_file, kg_ready_file) ==
  [act_id |-> act_id, year |-> year, sections_file |-> sections_file,
   enriched_file |-> enriched_file, kg_ready_file |-> kg_ready_file]

\* choose_source_file(year, act_id): "kg_ready", "enriched" or "none"
choose_source_file(r) ==
  IF r.kg_ready_file = "full" THEN "kg_ready"
  ELSE IF r.enriched_file = "full" THEN "enriched"
  ELSE "none"

\* what one iteration of the stage's loop does with row r: "process" the
\* act, "skip" it, or "raise" (the exception leaves main)
RowOutcome(s, r) ==
  CASE s = "annotator" ->
         \* in_path.open() with no test of existence
         IF r.sections_file = "absent" THEN "raise" ELSE "process"
    [] s = "llm_batcher" ->
         IF r.year < FIRST_YEAR THEN "skip"
         ELSE IF r.enriched_file = "absent" THEN "skip"
         ELSE IF r.kg_ready_file = "full" THEN "skip"
         ELSE "process"
    [] OTHER ->
         IF choose_source_file(r) = "none" THEN "skip" ELSE "process"

\* the file a processed act leaves: the annotator writes the enriched file,
\* the batcher the kg_ready file, one record per record read
RowAfter(s, r) ==
  CASE s = "annotator" -> [r EXCEPT !.enriched_file = r.sections_file]
    [] s = "llm_batcher" -> [r EXCEPT !.kg_ready_file = r.enriched_file]
    [] OTHER -> r

ManifestActs == <<A1, A2, <<"2", "0", "1", "1", "_", "3">>>>

ManifestRows(k) ==
  {ManifestRow(ManifestActs[k], y, sf, ef, kf) :
     y \in {FIRST_YEAR - 1, FIRST_YEAR + 1},
     sf \in {"absent", "full"}, ef \in FileStates, kf \in {"absent", "full"}}

InitManifest ==
  /\ stage \in Stages
  /\ \E n \in 0 .. MaxRows :
       manifest \in {m \in [1 .. n -> UNION {ManifestRows(k) : k \in 1 .. n}] :
                       \A k \in 1 .. n : m[k] \in ManifestRows(k)}
  /\ rowNo = 0
  /\ processed = <<>>
  /\ aborted = FALSE
  /\ phase = "manifest"
  /\ graph = EmptyGraph /\ hist = <<>> /\ runs = [p \in {} |-> 0]
  /\ base = EmptyGraph /\ file = <<>> /\ pos = 0 /\ restarts = 0
  /\ RrfIdle /\ RagIdle /\ TextIdle /\ LlmIdle /\ FmtIdle /\ IdxIdle

\* one iteration of `for row in reader` that processes or skips the act
RowStep ==
  /\ phase = "manifest" /\ ~aborted
  /\ rowNo < Len(manifest)
  /\ RowOutcome(stage, manifest[rowNo + 1]) # "raise"
  /\ rowNo' = rowNo + 1
  /\ IF RowOutcome(stage, manifest[rowNo + 1]) = "process"
     THEN /\ processed' = Append(processed, manifest[rowNo + 1].act_id)
          /\ manifest' = [manifest EXCEPT ![rowNo + 1] = RowAfter(stage, @)]
     ELSE UNCHANGED <<processed, manifest>>
  /\ UNCHANGED <<stage, aborted>>
  /\ UNCHANGED <<kgVars, rrfVars, ragVars, textVars, llmVars, fmtVars, idxVars>>

\* one iteration whose exception ends the run
RowRaises ==
  /\ phase = "manifest" /\ ~aborted
  /\ rowNo < Len(manifest)
  /\ RowOutcome(stage, manifest[rowNo + 1]) = "raise"
  /\ aborted' = TRUE
  /\ UNCHANGED <<stage, manifest, rowNo, processed>>
  /\ UNCHANGED <<kgVars, rrfVars, ragVars, textVars, llmVars, fmtVars, idxVars>>

NextManifest == RowStep \/ RowRaises

SpecManifest == InitManifest /\ [][NextManifest]_vars

\* the input file of an act in a stage is there
InputPresent(s, r) ==
  CASE s = "annotator" -> r.sections_file # "absent"
    [] s = "llm_batcher" -> r.enriched_file # "absent"
    [] OTHER -> r.kg_ready_file = "full" \/ r.enriched_file = "full"

\* C27: no stage ends its run on a missing input file, and when the loop
\* has ended every act of the manifest whose input file is present has been
\* processed (or, in the LLM batcher, had its output already)
C27_MissingFileSkipped ==
  /\ ~aborted
  /\ rowNo = Len(manifest) =>
       \A k \in DOMAIN manifest :
         InputPresent(stage, manifest[k]) =>
           \/ \E j \in DOMAIN processed : processed[j] = manifest[k].act_id
           \/ stage = "llm_batcher" /\ manifest[k].kg_ready_file = "full"

----------------------------------------------------------------------------
(* Retrieval: the locator fallback and the evidence assembly *)

\* the Act-owned Sections of g whose section number is L ignoring case
SectionsNumbered(g, L) ==
  {OwnedRows(g)[i].s : i \in {j \in DOMAIN OwnedRows(g) :
     /\ g.nodes[OwnedRows(g)[j].s].p.sectionNo # Null
     /\ Upper(g.nodes[OwnedRows(g)[j].s].p.sectionNo) = Upper(L)}}

\* C28: when Fallback 1 runs for a query with locator L, the id set it
\* leaves is exactly the Act-owned Sections whose section number is L
\* ignoring case
C28_LocatorFallbackFinds ==
  "fallback1" \in ran =>
    {tierIds["fallback1"][i] : i \in DOMAIN tierIds["fallback1"]}
      = SectionsNumbered(store, extract_article_id(query))

\* C30: the evidence list has exactly one entry for each id of the final id
\* set: none missing, none repeated, none of another Section
C30_OneEntryPerId ==
  "fetch" \in ran =>
    /\ \A i \in DOMAIN ids :
         Cardinality({k \in DOMAIN evidence :
                        evidence[k].section_neo4j_id = ids[i]}) = 1
    /\ \A k \in DOMAIN evidence :
         \E i \in DOMAIN ids : evidence[k].section_neo4j_id = ids[i]

----------------------------------------------------------------------------
(* Retrieval: the semantic fallback on acts of many sections *)

DigitChars == <<"0", "1", "2", "3", "4", "5", "6", "7", "8", "9">>

\* str(n) of a natural number
RECURSIVE Decimal(_)
Decimal(n) ==
  IF n < 10 THEN <<DigitChars[n + 1]>>
  ELSE Decimal(n \div 10) \o <<DigitChars[(n % 10) + 1]>>

\* the number a section number starts with ("10" and "10A" are 10)
RECURSIVE LeadingNumber(_, _)
LeadingNumber(s, acc) ==
  IF s = <<>> \/ ~IsDigit(Head(s)) THEN acc
  ELSE LeadingNumber(Tail(s),
         10 * acc + (CHOOSE d \in 0 .. 9 : DigitChars[d + 1] = Head(s)))

\* the kg_ready file of act A1 with sections 8, 9, 10, ... (n of them), no
\* entities
LongAct(n) ==
  [k \in 1 .. n |->
     Sec(A1, <<"1", "8", "5", "1">>, Decimal(7 + k), Null,
         <<>>, <<>>, <<>>, <<>>, <<>>)]

\* sizes of the graph store and of the graph the index was built from
StoreSizes == {0, 3, MaxLongAct}
IndexSizes == {0, 1, 2, MaxIndexed}

LocatorQuery == <<"s", "e", "c", "t", "i", "o", "n", " ", "9">>

\* the index was built when the act had m sections, the store has n >= m
InitFallback2 ==
  /\ \E n \in StoreSizes : \E m \in {k \in IndexSizes : k <= n} :
       /\ store = UpsertAll(EmptyGraph, LongAct(n))
       /\ \E nearest \in 0 .. m + 1 :
            index = IndexOf(UpsertAll(EmptyGraph, LongAct(m)), nearest)
  /\ query \in {LocatorQuery, <<"z", "z">>}
  /\ pc = "primary"
  /\ ids = <<>>
  /\ tierIds = [t \in Tiers |-> <<>>]
  /\ ran = {}
  /\ evidence = <<>>
  /\ result = "none"
  /\ graph = EmptyGraph /\ hist = <<>> /\ KgIdle /\ RrfIdle /\ TextIdle /\ LlmIdle /\ ManIdle /\ FmtIdle /\ IdxIdle

SpecFallback2 == InitFallback2 /\ [][NextRAG]_vars

\* the Sections among the hits of a semantic search
DirectHits(sem) ==
  {sem[i].id : i \in {k \in DOMAIN sem : sem[k].type = "section"}}

\* the member Sections of the Acts among the hits of a semantic search
ExpandedMembers(g, sem) ==
  LET acts == {sem[i].id : i \in {k \in DOMAIN sem : sem[k].type = "act"}}
      rows == OwnedRows(g)
  IN {rows[j].s : j \in {k \in DOMAIN rows : rows[k].a \in acts}}

\* C29: the id set Fallback 2 produces has no id twice and at most 10 ids;
\* it keeps first-seen order, the directly returned Sections in descending
\* similarity ahead of every Section that comes from expanding an Act; the
\* expanded Sections are among the 40 lowest-numbered members of the Acts
\* and are taken in ascending section-number order (by the number, then by
\* the suffix), none skipped
C29_Fallback2IdSet ==
  LET idSet == tierIds["fallback2"]
      sem == smart_semantic_search(index, SEM_LIMIT)
      direct == DirectHits(sem)
      members == ExpandedMembers(store, sem)
      dist == [d \in direct |->
                 sem[CHOOSE i \in DOMAIN sem :
                       sem[i].type = "section" /\ sem[i].id = d].distance]
      no == [m \in members |-> store.nodes[m].p.sectionNo]
      num == [m \in members |-> LeadingNumber(no[m], 0)]
      Before(a, b) ==
        num[a] < num[b] \/ (num[a] = num[b] /\ StringBefore(no[a], no[b]))
      inSet == {idSet[i] : i \in DOMAIN idSet}
      expanded == {i \in DOMAIN idSet : idSet[i] \notin direct}
  IN ("fallback2" \in ran /\ idSet # <<>>) =>
       /\ Cardinality(inSet) = Len(idSet)
       /\ Len(idSet) <= DEDUPE_CAP
       /\ inSet \subseteq direct \cup members
       /\ \A i, j \in DOMAIN idSet \ expanded :
            i < j => dist[idSet[i]] <= dist[idSet[j]]
       /\ \A i \in expanded : \A j \in DOMAIN idSet \ expanded : j < i
       /\ direct \subseteq inSet
            \/ (Len(idSet) = DEDUPE_CAP /\ expanded = {})
       /\ \A i \in expanded :
            Cardinality({m \in members : Before(m, idSet[i])}) < EXPAND_LIMIT
       /\ \A i, j \in expanded : i < j => ~Before(idSet[j], idSet[i])
       /\ \A i \in expanded :
            \A m \in members : Before(m, idSet[i]) => m \in inSet

----------------------------------------------------------------------------
(* Retrieval: the formatted citation of an evidence entry *)

MadrasTitle ==
  <<"T", "H", "E", " ", "M", "A", "D", "R", "A", "S", " ", "C", "I", "T", "Y",
    " ", "L", "A", "N", "D", " ", "R", "E", "V", "E", "N", "U", "E", " ",
    "A", "C", "T">>

Section10 == <<"S", "e", "c", "t", "i", "o", "n", " ", "1", "0">>

\* the values s.citation, a.title and a.year can hold in the graph store:
\* null, an empty string, a text; the year is the integer of the manifest
FmtCitations == {Null, <<>>, Section10, <<"S", "e", "c", "t", "i", "o", "n", " ", "2", "A">>}
FmtTitles == {Null, <<>>, MadrasTitle, <<"T", "o", "c">>}
FmtYears ==
  {Null, <<"#", "1", "8", "5", "1">>, <<"#", "1", "8", "6", "0">>,
   <<"#", "2", "0", "1", "0">>}

InitFormat ==
  /\ fmt \in [citation : FmtCitations, title : FmtTitles, year : FmtYears,
              formatted : {Null}, done : {FALSE}]
  /\ graph = EmptyGraph /\ hist = <<>>
  /\ KgIdle /\ RrfIdle /\ RagIdle /\ TextIdle /\ LlmIdle /\ ManIdle /\ IdxIdle

\* lines 98-111 on one row: the `or` fallbacks, then the formatting
FormatRow ==
  /\ fmt # <<>>
  /\ ~fmt.done
  /\ LET act_title == Or(fmt.title, Null)
         raw_citation == Or(fmt.citation, Null)
     IN fmt' = [fmt EXCEPT
                  !.formatted = formatted_citation(raw_citation, act_title,
                                                   fmt.year),
                  !.done = TRUE]
  /\ UNCHANGED <<kgVars, rrfVars, ragVars, textVars, llmVars, manVars, idxVars>>

NextFormat == FormatRow

SpecFormat == InitFormat /\ [][NextFormat]_vars

\* C31: the formatted citation is "<citation> of <title>, <year>" when the
\* three are present, "<citation> of <title>" when only the year is absent
\* and the raw citation (null when there is none) otherwise; "Section 10",
\* "THE MADRAS CITY LAND REVENUE ACT" and 1851 give
\* "Section 10 of THE MADRAS CITY LAND REVENUE ACT, 1851"
C31_FormattedCitation ==
  (fmt # <<>> /\ fmt.done) =>
    LET Has(x) == x # Null /\ x # <<>>
        of == <<" ", "o", "f", " ">>
        raw == IF Has(fmt.citation) THEN fmt.citation ELSE Null
    IN /\ (Has(fmt.citation) /\ Has(fmt.title) /\ Has(fmt.year))
            => fmt.formatted
                 = Concat(<<fmt.citation, of, fmt.title, <<",", " ">>,
                            Tail(fmt.year)>>)
       /\ (Has(fmt.citation) /\ Has(fmt.title) /\ ~Has(fmt.year))
            => fmt.formatted = Concat(<<fmt.citation, of, fmt.title>>)
       /\ ~(Has(fmt.citation) /\ Has(fmt.title)) => fmt.formatted = raw
       /\ (fmt.citation = Section10 /\ fmt.title = MadrasTitle
             /\ fmt.year = <<"#", "1", "8", "5", "1">>)
            => fmt.formatted
                 = <<"S", "e", "c", "t", "i", "o", "n", " ", "1", "0", " ",
                     "o", "f", " ", "T", "H", "E", " ", "M", "A", "D", "R",
                     "A", "S", " ", "C", "I", "T", "Y", " ", "L", "A", "N",
                     "D", " ", "R", "E", "V", "E", "N", "U", "E", " ", "A",
                     "C", "T", ",", " ", "1", "8", "5", "1">>

\* the example of the specification has been formatted
C31_MadrasFormatted ==
  /\ fmt # <<>> /\ fmt.done
  /\ fmt.citation = Section10 /\ fmt.title = MadrasTitle
  /\ fmt.year = <<"#", "1", "8", "5", "1">>
  /\ Len(fmt.formatted) = 52

----------------------------------------------------------------------------
(* Vector index: the documents and metadata Indexing.py writes *)

\* ", ".join(texts)
RECURSIVE JoinComma(_)
JoinComma(texts) ==
  IF texts = <<>> THEN <<>>
  ELSE IF Len(texts) = 1 THEN texts[1]
  ELSE texts[1] \o <<",", " ">> \o JoinComma(Tail(texts))

\* collect(DISTINCT x) of the values of the nodes I, then [v for v in .. if v]
DistinctValues(g, I, Value(_)) ==
  LET order == SortedIds(I)
      first == {k \in DOMAIN order :
                  /\ Truthy(Value(g.nodes[order[k]]))
                  /\ \A j \in 1 .. k - 1 :
                       Value(g.nodes[order[j]]) # Value(g.nodes[order[k]])}
      keep == SortedIds(first)
  IN [k \in DOMAIN keep |-> Value(g.nodes[order[keep[k]]])]

\* the nodes an edge of the type leads to from node n, and those it comes from
Targets(g, n, type, label) ==
  {e.dst : e \in {x \in g.edges :
     x.type = type /\ x.src = n /\ g.nodes[x.dst].label = label}}
Origins(g, n, type, label) ==
  {e.src : e \in {x \in g.edges :
     x.type = type /\ x.dst = n /\ g.nodes[x.src].label = label}}

\* the section document with the citation of the Section in front
SectionDocument_WithCitation(g, row) ==
  LET act == g.nodes[row.a]
      sec == g.nodes[row.s]
  IN StripWs(Concat(<<Or(sec.p.citation, <<>>), <<"\n">>,
                      Or(act.p.title, <<>>), <<"\n">>,
                      Or(sec.p.heading, <<>>), <<"\n", "\n">>,
                      Or(sec.p.summary, <<>>), <<"\n", "\n">>,
                      Or(sec.p.text, <<>>)>>))

\* lines 87-121: the record of one (Act, Section) row
SectionDocument(g, row) ==
  LET act == g.nodes[row.a]
      sec == g.nodes[row.s]
      act_title == Or(act.p.title, <<>>)
      heading == Or(sec.p.heading, <<>>)
      summary == Or(sec.p.summary, <<>>)
      text == Or(sec.p.text, <<>>)
  IN StripWs(Concat(<<act_title, <<"\n">>, heading, <<"\n", "\n">>, summary, <<"\n", "\n">>, text>>))

SectionRecords(g) ==
  LET rows == OwnedRows(g)
  IN {[id |-> rows[i].s,
       document |-> SectionDocument(g, rows[i]),
       metadata |->
         [neo4j_id |-> rows[i].s,
          act_title |-> Or(g.nodes[rows[i].a].p.title, Null),
          act_year |-> g.nodes[rows[i].a].p.year,
          act_number |-> Null,
          section_id |-> Or(g.nodes[rows[i].s].p.section_id, Null),
          sectionNo |-> g.nodes[rows[i].s].p.sectionNo,
          citation |-> g.nodes[rows[i].s].p.citation,
          node_label |-> "Section"]] : i \in DOMAIN rows}

\* lines 139-159
ActRecords(g) ==
  {[id |-> a,
    document |-> Or(g.nodes[a].p.title, <<>>),
    metadata |-> [neo4j_id |-> a, title |-> g.nodes[a].p.title,
                  year |-> g.nodes[a].p.year, act_number |-> Null,
                  node_label |-> "Act"]] : a \in LabelIdx(g, "Act")}

\* rows of MATCH (a:Act)-[:HAS_SECTION]->(s:Section)-[:type]->(n:label)
EntityRows(g, type, label) ==
  LET rows == OwnedRows(g)
  IN UNION {{[a |-> rows[i].a, s |-> rows[i].s, n |-> n] :
               n \in Targets(g, rows[i].s, type, label)} : i \in DOMAIN rows}

\* lines 269-297
TermDocument(g, r) ==
  StripWs(Concat(<<<<"D", "e", "f", "i", "n", "e", "d", " ", "t", "e", "r", "m", ":", " ">>, Or(g.nodes[r.n].p.name, <<>>),
                   <<"\n", "A", "c", "t", ":", " ">>, Or(g.nodes[r.a].p.title, <<>>),
                   <<"\n", "S", "e", "c", "t", "i", "o", "n", " ", "h", "e", "a", "d", "i", "n", "g", ":", " ">>, Or(g.nodes[r.s].p.heading, <<>>), <<"\n", "\n">>,
                   Or(g.nodes[r.s].p.summary, <<>>), <<"\n", "\n">>,
                   Or(g.nodes[r.s].p.text, <<>>)>>))

TermRecords(g) ==
  {[id |-> r.n,
    document |-> TermDocument(g, r),
    metadata |-> [neo4j_id |-> r.n, entity_id |-> g.nodes[r.n].id,
                  node_label |-> "DefinedTerm",
                  name |-> Or(g.nodes[r.n].p.name, <<>>),
                  act_title |-> Or(g.nodes[r.a].p.title, <<>>),
                  section_no |-> g.nodes[r.s].p.sectionNo]] :
     r \in EntityRows(g, "DEFINES", "DefinedTerm")}

\* lines 203-216 and 300-323: a Role with the Acts it appears in and the
\* Sections that mention it
RoleActTitles(g, r) ==
  LET Title(n) == n.p.title
  IN DistinctValues(g, Targets(g, r, "APPEARS_IN_ACT", "Act"), Title)

RoleHeadings(g, r) ==
  LET Heading(n) == n.p.heading
  IN DistinctValues(g, Origins(g, r, "MENTIONS_ROLE", "Section"), Heading)

RoleDocument(g, r) ==
  StripWs(Concat(<<<<"R", "o", "l", "e", ":", " ">>, Or(g.nodes[r].p.name, <<>>),
                   <<"\n", "A", "p", "p", "e", "a", "r", "s", " ", "i", "n", " ", "A", "c", "t", "s", ":", " ">>, JoinComma(RoleActTitles(g, r)),
                   <<"\n", "T", "y", "p", "i", "c", "a", "l", " ", "s", "e", "c", "t", "i", "o", "n", "s", ":", " ">>, JoinComma(RoleHeadings(g, r))>>))

RoleRecords(g) ==
  {[id |-> r,
    document |-> RoleDocument(g, r),
    metadata |-> [neo4j_id |-> r, entity_id |-> g.nodes[r].id,
                  node_label |-> "Role",
                  name |-> Or(g.nodes[r].p.name, <<>>),
                  act_titles |-> RoleActTitles(g, r)]] :
     r \in LabelIdx(g, "Role")}

\* collect(DISTINCT r.name) over OPTIONAL MATCH (n)-[:type]->(r:Role)
RoleNames(g, n, type) ==
  LET Name(x) == x.p.name
  IN DistinctValues(g, Targets(g, n, type, "Role"), Name)

\* lines 326-357
ObligationDocument(g, r) ==
  StripWs(Concat(<<<<"O", "b", "l", "i", "g", "a", "t", "i", "o", "n", " ", "i", "n", " ", "A", "c", "t", ":", " ">>, Or(g.nodes[r.a].p.title, <<>>),
                   <<"\n", "S", "e", "c", "t", "i", "o", "n", " ", "h", "e", "a", "d", "i", "n", "g", ":", " ">>, Or(g.nodes[r.s].p.heading, <<>>), <<"\n", "\n">>,
                   <<"O", "b", "l", "i", "g", "a", "t", "i", "o", "n", " ", "a", "c", "t", "i", "o", "n", ":", " ">>, Or(g.nodes[r.n].p.action, <<>>),
                   <<"\n", "C", "o", "n", "d", "i", "t", "i", "o", "n", "s", ":", " ">>, Or(g.nodes[r.n].p.conditions, <<>>),
                   <<"\n", "A", "p", "p", "l", "i", "e", "s", " ", "t", "o", " ", "r", "o", "l", "e", "s", ":", " ">>, JoinComma(RoleNames(g, r.n, "OBLIGATION_ON")),
                   <<"\n", "\n">>, Or(g.nodes[r.s].p.summary, <<>>), <<"\n", "\n">>,
                   Or(g.nodes[r.s].p.text, <<>>)>>))

ObligationRecords(g) ==
  {[id |-> r.n,
    document |-> ObligationDocument(g, r),
    metadata |-> [neo4j_id |-> r.n, entity_id |-> g.nodes[r.n].id,
                  node_label |-> "Obligation",
                  act_title |-> Or(g.nodes[r.a].p.title, <<>>),
                  section_no |-> g.nodes[r.s].p.sectionNo,
                  roles |-> RoleNames(g, r.n, "OBLIGATION_ON")]] :
     r \in EntityRows(g, "IMPOSES_OBLIGATION", "Obligation")}

\* lines 360-393
PenaltyDocument(g, r) ==
  StripWs(Concat(<<<<"P", "e", "n", "a", "l", "t", "y", " ", "i", "n", " ", "A", "c", "t", ":", " ">>, Or(g.nodes[r.a].p.title, <<>>),
                   <<"\n", "S", "e", "c", "t", "i", "o", "n", " ", "h", "e", "a", "d", "i", "n", "g", ":", " ">>, Or(g.nodes[r.s].p.heading, <<>>), <<"\n", "\n">>,
                   <<"D", "e", "s", "c", "r", "i", "p", "t", "i", "o", "n", ":", " ">>, Or(g.nodes[r.n].p.description, <<>>),
                   <<"\n", "I", "m", "p", "r", "i", "s", "o", "n", "m", "e", "n", "t", ":", " ">>, Or(g.nodes[r.n].p.imprisonment, <<>>),
                   <<"\n", "F", "i", "n", "e", ":", " ">>, Or(g.nodes[r.n].p.fine_amount, <<>>),
                   <<"\n", "A", "p", "p", "l", "i", "e", "s", " ", "t", "o", " ", "r", "o", "l", "e", "s", ":", " ">>, JoinComma(RoleNames(g, r.n, "APPLIES_TO")),
                   <<"\n", "\n">>, Or(g.nodes[r.s].p.summary, <<>>), <<"\n", "\n">>,
                   Or(g.nodes[r.s].p.text, <<>>)>>))

PenaltyRecords(g) ==
  {[id |-> r.n,
    document |-> PenaltyDocument(g, r),
    metadata |-> [neo4j_id |-> r.n, entity_id |-> g.nodes[r.n].id,
                  node_label |-> "Penalty",
                  act_title |-> Or(g.nodes[r.a].p.title, <<>>),
                  section_no |-> g.nodes[r.s].p.sectionNo,
                  roles |-> RoleNames(g, r.n, "APPLIES_TO")]] :
     r \in EntityRows(g, "PRESCRIBES_PENALTY", "Penalty")}

\* the three collections after index_acts_into_chroma,
\* index_sections_into_chroma and index_entities_into_chroma
IndexRecords(g) ==
  [sections |-> SectionRecords(g),
   acts |-> ActRecords(g),
   terms |-> TermRecords(g),
   roles |-> RoleRecords(g),
   obligations |-> ObligationRecords(g),
   penalties |-> PenaltyRecords(g)]

\* the Vector Index Manager runs on a graph the upsert built, with or
\* without the title back-fill of act A1, before or after the enrichment
InitIndex ==
  /\ file \in SeqsUpTo(Records, MaxBase)
  /\ graph \in {UpsertAll(EmptyGraph, file),
                update_act_title(UpsertAll(EmptyGraph, file), A1, TocTitle)}
  /\ base = graph
  /\ runs = [p \in Passes |-> 0]
  /\ phase = "index"
  /\ chroma = <<>>
  /\ hist = <<>> /\ pos = 0 /\ restarts = 0
  /\ RrfIdle /\ RagIdle /\ TextIdle /\ LlmIdle /\ ManIdle /\ FmtIdle

\* 06_enrich_graph.py main(), once
EnrichAll ==
  /\ phase = "index"
  /\ \A p \in Passes : runs[p] = 0
  /\ graph' = EnrichMain(graph, file)
  /\ runs' = [p \in Passes |-> 1]
  /\ UNCHANGED <<hist, phase, base, file, pos, restarts, chroma>>
  /\ UNCHANGED <<rrfVars, ragVars, textVars, llmVars, manVars, fmtVars>>

\* Indexing.py __main__: the three collections are upserted from the graph
IndexRun ==
  /\ phase = "index"
  /\ chroma' = IndexRecords(graph)
  /\ UNCHANGED <<kgVars, rrfVars, ragVars, textVars, llmVars, manVars, fmtVars>>

NextIndex == EnrichAll \/ IndexRun

SpecIndex == InitIndex /\ [][NextIndex]_vars

Collections ==
  {"sections", "acts", "terms", "roles", "obligations", "penalties"}

\* the graph with every property removed that is no title, heading, summary,
\* body text or description of an entity: node ids, section numbers,
\* citations, years, chapters and pages are gone
Scrubbed(g) ==
  LET Scrub(n) ==
        IF n.label = "Act" THEN [n EXCEPT !.id = Null, !.p.year = Null]
        ELSE IF n.label = "Section"
        THEN [n EXCEPT !.id = Null, !.p.citation = Null, !.p.sectionNo = Null,
                       !.p.section_id = Null, !.p.chapter = Null,
                       !.p.pages = Null]
        ELSE [n EXCEPT !.id = Null]
  IN [g EXCEPT !.nodes = [i \in DOMAIN g.nodes |-> Scrub(g.nodes[i])]]

\* the embedded document of every record of every collection
Documents(ix) ==
  [c \in Collections |-> {<<r.id, r.document>> : r \in ix[c]}]

\* C32: the embedded document of every record of the three collections is
\* built only from titles, headings, summaries, body texts and entity
\* descriptions: it is the document the indexer writes for the graph without
\* its node ids, section numbers and citations; the metadata of every record
\* names the node by neo4j_id and its label by node_label
C32_DocumentsWithoutIdentifiers ==
  \A g \in {base, graph} :
    (chroma # <<>> /\ chroma = IndexRecords(g)) =>
      /\ Documents(chroma) = Documents(IndexRecords(Scrubbed(g)))
      /\ \A c \in Collections : \A r \in chroma[c] :
           /\ r.metadata.neo4j_id = r.id
           /\ r.id \in DOMAIN g.nodes
           /\ r.metadata.node_label = g.nodes[r.id].label

\* the three collections hold records of a graph whose Sections carry
\* numbers and citations
C32_AllCollectionsWritten ==
  /\ chroma # <<>>
  /\ chroma = IndexRecords(graph)
  /\ \A c \in Collections : chroma[c] # {}
  /\ \E r \in chroma["sections"] :
       /\ r.metadata.sectionNo # Null /\ r.metadata.citation # Null
       /\ r.document # <<>>

\* C33: the records the Vector Index Manager writes (ids, documents,
\* metadata) are those it writes for the upserted graph before the Citation
\* Resolver and Graph Enrichment passes, also when it runs after them
C33_IndexIndependentOfEnrichment ==
  chroma # <<>> => chroma = IndexRecords(base)

----------------------------------------------------------------------------
(* Segmenter: the chapter recorded for a section *)

\* the chapter that is current when line i is scanned: the one of the last
\* CHAPTER line before it, null when there is none
ChapterWhenScanned(d, i) ==
  LET before == {j \in 1 .. i - 1 : detect_chapter(d[j]) # Null}
  IN IF before = {} THEN Null
     ELSE detect_chapter(d[CHOOSE j \in before : \A k \in before : k <= j])

\* C34: every section the segmenter emitted carries as hierarchy.chapter the
\* chapter that was current when its own header line was scanned; a CHAPTER
\* line between its body and the next header does not change it
C34_ChapterOfOwnHeader ==
  LET want == Emitted(doc, ln, phase = "done")
  IN (phase \in {"scan", "done"} /\ Len(out) = Len(want)) =>
       \A i \in DOMAIN out :
         out[i].hierarchy.chapter = ChapterWhenScanned(doc, want[i])

----------------------------------------------------------------------------
(* LLM batcher: foreign indices, the llm_used flag, a second run *)

\* C35: a response to a batch changes only sections of that batch: every
\* result held for an index is the one returned by the call that sent that
\* index, and the output file differs from the loaded sections only in
\* sections that were sent in a call
C35_ForeignIndexIgnored ==
  /\ \A idx \in DOMAIN results_by_index :
       \E k \in DOMAIN calls :
         /\ idx \in SentIn(k)
         /\ idx \in DOMAIN calls[k].result
         /\ results_by_index[idx] = calls[k].result[idx]
  /\ (phase = "llm_done" /\ sections # <<>>) =>
       \A j \in DOMAIN kg_file :
         kg_file[j] # MarkUnused(file)[j]
           => \E i \in DOMAIN llm_inputs : llm_inputs[i].section_index = j - 1

\* C36: every section written to the kg_ready file has
\* processing_meta.llm_used set to a boolean
C36_LlmUsedBoolean ==
  \A j \in DOMAIN kg_file :
    kg_file[j].processing_meta.llm_used \in {<<"true">>, <<"false">>}

\* C37: once the kg_ready file of the act exists and is not empty, no step
\* changes it, and a later run of the batcher makes no LLM call
C37_RerunSkipsExistingOutput ==
  [][kg_file # <<>> =>
       /\ kg_file' = kg_file
       /\ restarts' >= 1 => calls' = <<>>]_vars

\* a second run ended on an output file that the first run wrote after a
\* failed batch
C37_RerunAfterFailedBatch ==
  /\ phase = "llm_done"
  /\ restarts >= 1
  /\ calls = <<>>
  /\ kg_file # <<>>
  /\ \E j \in DOMAIN kg_file :
       /\ find_candidate_sentences(kg_file[j].text) # <<>>
       /\ kg_file[j].processing_meta.llm_used = Null

----------------------------------------------------------------------------
(* rrf_fuse on the lists of the tool: at most 50 candidates each *)

\* limit=50 of the two searches of the tool
CANDIDATE_LIMIT == 50

\* a list of n results: id 1 at position px and id 2 at position py (0: not
\* in the list), and ids that no other list holds elsewhere
CandidateList(n, px, py, off) ==
  [i \in 1 .. n |-> IF i = px THEN 1 ELSE IF i = py THEN 2 ELSE off + i]

\* the positions of ids 1 and 2 in a list of n results: absent, first or last
TrackedPositions(n) ==
  {p \in {0, 1, n} \X {0, 1, n} : p[1] = 0 \/ p[1] # p[2]}

\* top_k of the tool, the default of rrf_fuse, and one that cuts nothing
FuseCuts == {TOP_K, 15, 2 * CANDIDATE_LIMIT + 2}

InitFuse50 ==
  /\ \E nv, nl \in {2, CANDIDATE_LIMIT} :
       /\ \E p \in TrackedPositions(nv) : vecList = CandidateList(nv, p[1], p[2], 100)
       /\ \E p \in TrackedPositions(nl) : lexList = CandidateList(nl, p[1], p[2], 200)
  /\ topK \in FuseCuts
  /\ fused = <<>>
  /\ pc = "fuse"
  /\ graph = EmptyGraph /\ hist = <<>>
  /\ KgIdle /\ TextIdle /\ LlmIdle /\ ManIdle /\ FmtIdle /\ IdxIdle
  /\ store = <<>> /\ index = <<>> /\ query = <<>>
  /\ ids = <<>> /\ tierIds = <<>> /\ ran = {} /\ evidence = <<>>
  /\ result = "none"

SpecFuse50 == InitFuse50 /\ [][NextRRF]_vars

\* C40: with k = 60 and at most 50 candidates per list, none twice in a
\* list, every id that is in both lists is ranked ahead of every id that is
\* in one list only (an id of both lists is cut by top_k only when no id of
\* one list is returned), and no id is returned twice
C40_BothListsAhead ==
  LET inBoth == {x \in AllIds : InList(vecList, x) /\ InList(lexList, x)}
      out50 == {fused[i] : i \in DOMAIN fused}
  IN (pc = "fused" /\ Len(vecList) <= CANDIDATE_LIMIT
        /\ Len(lexList) <= CANDIDATE_LIMIT) =>
       /\ Cardinality(out50) = Len(fused)
       /\ \A i, j \in DOMAIN fused :
            (fused[i] \in inBoth /\ fused[j] \notin inBoth) => i < j
       /\ inBoth \subseteq out50 \/ out50 \subseteq inBoth

\* an id at the last of 50 positions of both lists was fused ahead of the
\* first result of each list
C40_LastInBothFirst ==
  /\ pc = "fused"
  /\ Len(vecList) = CANDIDATE_LIMIT /\ Len(lexList) = CANDIDATE_LIMIT
  /\ vecList[CANDIDATE_LIMIT] = 1 /\ lexList[CANDIDATE_LIMIT] = 1
  /\ vecList[1] # lexList[1]
  /\ Len(fused) >= 3
  /\ fused[1] = 1
  /\ fused[2] = vecList[1]

----------------------------------------------------------------------------
(* From the annotator to the citation pass: 03_enrich_rule_based.py writes  *)
(* the enriched file, 05_stream_to_kg.py upserts it (the kg_ready file is   *)
(* absent, so choose_source_file falls back to the enriched one) and        *)
(* 06_enrich_graph.py step 1 reads the same file.                           *)

\* a record of the sections file of act A1, as 02_parse_structure.py writes
\* it: none of the annotator's keys is present
ParsedSection(no, text) ==
  [act_id |-> A1, act_year |-> <<"1", "8", "5", "1">>,
   section_id |-> SecId(A1, no),
   citation |-> <<"S", "e", "c", "t", "i", "o", "n", " ">> \o no,
   heading |-> Null, text |-> text,
   hierarchy |-> [chapter |-> Null, section |-> no],
   pages |-> <<"1">>,
   citations |-> Null, defined_terms |-> Null, amendments |-> Null,
   precedence_clauses |-> Null, roles |-> Null, obligations |-> Null,
   powers |-> Null, penalties |-> Null, rights |-> Null,
   processing_meta |-> [rule_based_flags |-> Null]]

\* pieces of section text: a citation of section 1, one of section 2, a list
\* of both, a plain line
CiteFragments ==
  {<<"s", "e", "e", " ", "s", "e", "c", "t", "i", "o", "n", " ", "1", " ">>,
   <<"s", "e", "e", " ", "s", "e", "c", "t", "i", "o", "n", " ", "2", " ">>,
   <<"s", "e", "c", "t", "i", "o", "n", "s", " ", "1", ",", " ", "2", " ">>,
   <<"x", "\n">>}

\* flush_section writes no section whose text is blank
CiteTexts ==
  {Concat(parts) : parts \in SeqsUpTo(CiteFragments, MaxCiteParts) \ {<<>>}}

\* c.get(key) on a citation object of the enriched file
GetKey(c, key) == IF key \in DOMAIN c THEN c[key] ELSE Null

\* c.get(k1) or c.get(k2) or ...
RECURSIVE FirstOf(_, _)
FirstOf(c, keys) ==
  IF keys = <<>> THEN Null
  ELSE IF Len(keys) = 1 THEN GetKey(c, keys[1])
  ELSE Or(GetKey(c, keys[1]), FirstOf(c, Tail(keys)))

\* the three values iter_citations_from_section reads off a citation object
ReadCitation(c) ==
  CitDict(FirstOf(c, <<"target_section_id", "section_id", "target_section">>),
          FirstOf(c, <<"target_act_id", "act_id", "target_act", "act">>),
          FirstOf(c, <<"target_section_no", "section_no", "section">>))

\* a record of the enriched file as 05 and 06 read it: processing_meta has no
\* llm_used key, each citation is an object
ReadEnriched(sec) ==
  [sec EXCEPT !.processing_meta = [llm_used |-> Null],
              !.citations = [k \in DOMAIN sec.citations |->
                               ReadCitation(sec.citations[k])]]

ReadEnrichedFile(f) == [k \in DOMAIN f |-> ReadEnriched(f[k])]

InitCitePass ==
  /\ \E t1 \in CiteTexts, t2 \in CiteTexts :
       file = <<ParsedSection(<<"1">>, t1), ParsedSection(<<"2">>, t2)>>
  /\ phase = "cp_annotate"
  /\ graph = EmptyGraph /\ base = EmptyGraph
  /\ hist = <<>> /\ runs = [p \in {} |-> 0] /\ pos = 0 /\ restarts = 0
  /\ RrfIdle /\ RagIdle /\ TextIdle /\ LlmIdle /\ ManIdle /\ FmtIdle /\ IdxIdle

\* 03_enrich_rule_based.py main(): every record of the sections file
AnnotateFile ==
  /\ phase = "cp_annotate"
  /\ file' = [k \in DOMAIN file |-> enrich(file[k])]
  /\ phase' = "cp_upsert"
  /\ UNCHANGED <<graph, hist, runs, base, pos, restarts>>
  /\ UNCHANGED <<rrfVars, ragVars, textVars, llmVars, manVars, fmtVars, idxVars>>

\* 05_stream_to_kg.py main() over the enriched file
UpsertFile ==
  /\ phase = "cp_upsert"
  /\ graph' = UpsertAll(graph, ReadEnrichedFile(file))
  /\ base' = graph'
  /\ phase' = "cp_cites"
  /\ UNCHANGED <<hist, runs, file, pos, restarts>>
  /\ UNCHANGED <<rrfVars, ragVars, textVars, llmVars, manVars, fmtVars, idxVars>>

\* 06_enrich_graph.py step 1 over the enriched file
CiteFile ==
  /\ phase = "cp_cites"
  /\ graph' = add_cites_edges(graph, ReadEnrichedFile(file))
  /\ phase' = "cp_done"
  /\ UNCHANGED <<hist, runs, base, file, pos, restarts>>
  /\ UNCHANGED <<rrfVars, ragVars, textVars, llmVars, manVars, fmtVars, idxVars>>

NextCitePass == AnnotateFile \/ UpsertFile \/ CiteFile

SpecCitePass == InitCitePass /\ [][NextCitePass]_vars

\* the matched text "section n" of a citation of section number no
SectionCite(no) == <<"s", "e", "c", "t", "i", "o", "n", " ">> \o no

\* C38: after the citation pass, every section-kind citation the annotator
\* recorded on a Section that names one section number of an existing
\* Section of the same act has a CITES edge from the citing Section to the
\* cited one
C38_AnnotatorCitationResolved ==
  phase = "cp_done" =>
    \A k \in DOMAIN file, j \in DOMAIN file :
      \A i \in DOMAIN file[k].citations :
        (/\ file[k].citations[i].kind = "section"
         /\ file[k].citations[i].raw = SectionCite(file[j].hierarchy.section))
          => \E s \in NodeIdx(graph, "Section", file[k].section_id),
                t \in NodeIdx(graph, "Section", file[j].section_id) :
               \E e \in graph.edges :
                 e.type = "CITES" /\ e.src = s /\ e.dst = t

----------------------------------------------------------------------------
(* Upsert after the later stages: 08_update_neo4j_act_titles.py,            *)
(* 06_enrich_graph.py and 09_add_section_to_act_edges.py have run on the    *)
(* upserted graph, then 05_stream_to_kg.py upserts a record again.          *)

\* 09_add_section_to_act_edges.py:
\* MATCH (a:Act)-[:HAS_SECTION]->(s:Section) MERGE (s)-[:OF_ACT]->(a)
add_section_to_act_edges(g) ==
  LET rows == {<<e.dst, e.src>> : e \in
                 {q \in g.edges : /\ q.type = "HAS_SECTION"
                                  /\ g.nodes[q.src].label = "Act"
                                  /\ g.nodes[q.dst].label = "Section"}}
  IN [g EXCEPT !.edges = @ \cup
        {Edge("OF_ACT", r[1], r[2]) : r \in
           {q \in rows : ~\E e \in g.edges :
              e.type = "OF_ACT" /\ e.src = q[1] /\ e.dst = q[2]}}]

InitFrame ==
  /\ file \in SeqsUpTo(Records, MaxBase)
  /\ graph = UpsertAll(EmptyGraph, file)
  /\ base = graph
  /\ phase = "frame_title"
  /\ hist = <<>>
  /\ runs = [p \in {} |-> 0] /\ pos = 0 /\ restarts = 0
  /\ RrfIdle /\ RagIdle /\ TextIdle /\ LlmIdle /\ ManIdle /\ FmtIdle /\ IdxIdle

\* 08_update_neo4j_act_titles.py for act A1
FrameTitle ==
  /\ phase = "frame_title"
  /\ graph' = update_act_title(graph, A1, TocTitle)
  /\ phase' = "frame_enrich"
  /\ UNCHANGED <<hist, runs, base, file, pos, restarts>>
  /\ UNCHANGED <<rrfVars, ragVars, textVars, llmVars, manVars, fmtVars, idxVars>>

\* 06_enrich_graph.py main()
FrameEnrich ==
  /\ phase = "frame_enrich"
  /\ graph' = EnrichMain(graph, file)
  /\ phase' = "frame_of_act"
  /\ UNCHANGED <<hist, runs, base, file, pos, restarts>>
  /\ UNCHANGED <<rrfVars, ragVars, textVars, llmVars, manVars, fmtVars, idxVars>>

\* 09_add_section_to_act_edges.py main()
FrameOfAct ==
  /\ phase = "frame_of_act"
  /\ graph' = add_section_to_act_edges(graph)
  /\ base' = graph'
  /\ phase' = "frame_upsert"
  /\ UNCHANGED <<hist, runs, file, pos, restarts>>
  /\ UNCHANGED <<rrfVars, ragVars, textVars, llmVars, manVars, fmtVars, idxVars>>

\* session.execute_write(merge_section_tx, sec) on the finished graph
ReUpsert(sec) ==
  /\ phase = "frame_upsert"
  /\ Len(hist) < MaxReruns
  /\ graph' = merge_section_tx(graph, sec)
  /\ hist' = Append(hist, sec)
  /\ UNCHANGED <<phase, runs, base, file, pos, restarts>>
  /\ UNCHANGED <<rrfVars, ragVars, textVars, llmVars, manVars, fmtVars, idxVars>>

NextFrame ==
  \/ FrameTitle
  \/ FrameEnrich
  \/ FrameOfAct
  \/ \E sec \in Records : ReUpsert(sec)

SpecFrame == InitFrame /\ [][NextFrame]_vars

\* the edge types no statement of merge_section_tx names
LaterEdgeTypes ==
  {"CITES", "SAME_TERM_AS", "APPEARS_IN_ACT", "CO_OCCURS_WITH", "OF_ACT"}

LaterEdges(g) == {e \in g.edges : e.type \in LaterEdgeTypes}

\* C39: an upsert keeps every node (under its internal id, label and id) and
\* every edge, and leaves the title of every Act, the severity_score of
\* every Section and the CITES, SAME_TERM_AS, APPEARS_IN_ACT,
\* CO_OCCURS_WITH and OF_ACT edges (counts included) as they were, also
\* after the title back-fill and the graph enrichment
C39_UpsertFrame ==
  [][hist' # hist =>
       /\ Len(graph'.nodes) >= Len(graph.nodes)
       /\ \A i \in DOMAIN graph.nodes :
            /\ graph'.nodes[i].label = graph.nodes[i].label
            /\ graph'.nodes[i].id = graph.nodes[i].id
            /\ graph.nodes[i].label = "Act"
                 => graph'.nodes[i].p.title = graph.nodes[i].p.title
            /\ graph.nodes[i].label = "Section"
                 => graph'.nodes[i].p.severity_score
                      = graph.nodes[i].p.severity_score
       /\ \A e \in graph.edges :
            \E e2 \in graph'.edges :
              e2.type = e.type /\ e2.src = e.src /\ e2.dst = e.dst
       /\ LaterEdges(graph') = LaterEdges(graph)]_vars

\* a Section of the source file was upserted again on a graph with a titled
\* Act, a scored Section and an edge of each of the five types
C39_ReUpsertedAfterEnrichment ==
  /\ phase = "frame_upsert" /\ hist # <<>>
  /\ \E k \in DOMAIN file : file[k] = hist[1]
  /\ \E i \in LabelIdx(base, "Act") : base.nodes[i].p.title = TocTitle
  /\ \E i \in LabelIdx(base, "Section") : ~base.nodes[i].p.severity_score.isnull
  /\ \A t \in LaterEdgeTypes : \E e \in base.edges : e.type = t

====
